---- MODULE Spec2Model ----
(***************************************************************************)
(* Model of the PerformancePulse correlation engine                        *)
(* (backend/src/services/correlation_engine.py) and of the components it   *)
(* sequences: the JIRA-GitLab linker, the confidence scorer, the work      *)
(* story grouper and the merge with the tiered semantic matcher.           *)
(*                                                                         *)
(* Conventions                                                             *)
(*  - Confidence scores are fixed-point numbers: the float x is the        *)
(*    integer x * Q.  Q is divisible by 1..8, 10 and 7, so that every      *)
(*    score the formulas produce on the modelled inputs is exact.          *)
(*  - Dates are whole days (timedelta.days of two such dates is their      *)
(*    difference).                                                         *)
(*  - An evidence item's texts are modelled by the results of the regular  *)
(*    expressions the code applies to them (keys found, keywords, tokens). *)
(*  - A Python call that may raise returns [exc |-> message, val |-> v];   *)
(*    exc = NoExc means it returned v.                                     *)
(***************************************************************************)
EXTENDS Integers, Sequences, FiniteSets, TLC

VARIABLES
    enable_llm,     \* CorrelationEngine.enable_llm
    llm_service,    \* CorrelationEngine.llm_service: "none" or "service"
    request,        \* the CorrelationRequest the caller submits (threshold chosen per call)
    fault,          \* the pipeline step whose call raises on this evidence, or "none"
    run,            \* the last correlate_evidence call: intermediate values and response
    prev,           \* the call before it
    call,           \* a direct call of a component: [op, args, result]
    clock,          \* datetime.now(), as [year, month]
    usage_file,     \* llm_usage.json
    services,       \* the LLMCorrelationService objects: cost tracker and running call
    spent           \* the cost recorded so far in the calendar month of clock

ledger == <<clock, usage_file, services, spent>>

vars == <<enable_llm, llm_service, request, fault, run, prev, call, ledger>>

(***************************************************************************)
(* Bounds                                                                  *)
(***************************************************************************)
MaxItems == 3          \* longest evidence list
MaxMinEvidence == 2    \* largest min_evidence_per_story of an engine request
MaxGroupMin == 4       \* largest min_evidence_per_story of a direct grouper call
MaxRels == 2           \* longest relationship list of a direct component call
LLM_MONTHLY_BUDGET == 150  \* the configured monthly budget, in token costs
MaxYears == 1          \* the years the clock runs over after the first
MaxCalls == 1          \* the direct matcher calls one service receives

(***************************************************************************)
(* Fixed point                                                             *)
(***************************************************************************)
Q == 84 * 100

Pct(n) == (n * Q) \div 100           \* n/100 as a score

NoExc == "no_exception"
NoKey == "NoKey"
None == "None"

Ok(v) == [exc |-> NoExc, val |-> v]
Raise(msg) == [exc |-> msg, val |-> None]

Min2(a, b) == IF a <= b THEN a ELSE b
Max2(a, b) == IF a >= b THEN a ELSE b
Abs(n) == IF n < 0 THEN 0 - n ELSE n
Range(s) == {s[i] : i \in 1..Len(s)}

RECURSIVE Flatten(_)
Flatten(ss) == IF ss = <<>> THEN <<>> ELSE Head(ss) \o Flatten(Tail(ss))

RECURSIVE SetToSeq(_)
\* the elements of a set in some fixed order (Python iterates a set in an
\* order the program does not control)
SetToSeq(S) ==
    IF S = {} THEN <<>>
    ELSE LET m == CHOOSE x \in S : TRUE
         IN <<m>> \o SetToSeq(S \ {m})

(***************************************************************************)
(* Evidence items (models/unified_evidence.py).  The catalog holds the     *)
(* items evidence lists are drawn from; each entry gives, for concrete     *)
(* texts, what the code's regular expressions and tokenizers find in them  *)
(* (technologies: the technology patterns that match; indicators: the      *)
(* complexity keywords that occur).                                        *)
(*                                                                         *)
(*  gitlab_1  title "TEST-1: Fix session timeout"                          *)
(*            description "Fixes TEST-1 in auth service"                   *)
(*            branch_name "feature/TEST-1-auth-fix", author "ana"          *)
(*  jira_1    title "TEST-1: Session timeout on login"                     *)
(*            description "Users are logged out", key "TEST-1",            *)
(*            assignee "Ana"                                               *)
(*  gitlab_2  title "Add redis cache layer"                                *)
(*            description "Cache layer for sessions"                       *)
(*  jira_2    title "TEST-2: Cache layer"                                  *)
(*            description "Introduce cache layer"                          *)
(*  gitlab_3  title "Update README", description "Docs cleanup"            *)
(*  gitlab_4  title "Refactor cache", description "Internal cleanup"       *)
(*            branch_name "feature/TEST-2x" (the key pattern's \b fails    *)
(*            on it, the pattern feature/KEY matches)                      *)
(*  doc_1     title "Design notes", description "Cache design"             *)
(***************************************************************************)
GITLAB == "gitlab"
JIRA == "jira"
DOCUMENT == "document"

CatalogOrder ==
    <<"gitlab_1", "jira_1", "gitlab_2", "jira_2", "gitlab_3", "gitlab_4", "doc_1">>

CatalogIds == Range(CatalogOrder)

UnifiedEvidenceItem(id) ==
    CASE id = "gitlab_1" ->
           [id |-> id, platform |-> GITLAB, evidence_date |-> 10,
            title_keys |-> <<"TEST-1">>, description_keys |-> <<"TEST-1">>,
            metadata_key |-> NoKey, has_branch_name |-> TRUE,
            branch_issue_keys |-> {"TEST-1"},
            branch_pattern_keys |-> <<"TEST-1", "TEST-1">>,
            solve_keyword |-> TRUE, reference_keyword |-> FALSE,
            keywords |-> {"test", "session", "timeout", "fixes", "auth", "service"},
            tokens |-> {"test-1:", "fix", "session", "timeout", "fixes", "test-1",
                        "in", "auth", "service"},
            author |-> "ana",
            technologies |-> {},
            indicators |-> [high |-> {}, medium |-> {}, low |-> {"fix"}]]
      [] id = "jira_1" ->
           [id |-> id, platform |-> JIRA, evidence_date |-> 9,
            title_keys |-> <<"TEST-1">>, description_keys |-> <<>>,
            metadata_key |-> "TEST-1", has_branch_name |-> FALSE,
            branch_issue_keys |-> {}, branch_pattern_keys |-> <<>>,
            solve_keyword |-> FALSE, reference_keyword |-> FALSE,
            keywords |-> {"test", "session", "timeout", "login", "users", "logged"},
            tokens |-> {"test-1:", "session", "timeout", "on", "login", "users",
                        "are", "logged", "out"},
            author |-> "ana",
            technologies |-> {},
            indicators |-> [high |-> {}, medium |-> {}, low |-> {}]]
      [] id = "gitlab_2" ->
           [id |-> id, platform |-> GITLAB, evidence_date |-> 11,
            title_keys |-> <<>>, description_keys |-> <<>>,
            metadata_key |-> NoKey, has_branch_name |-> FALSE,
            branch_issue_keys |-> {}, branch_pattern_keys |-> <<>>,
            solve_keyword |-> FALSE, reference_keyword |-> FALSE,
            keywords |-> {"redis", "cache", "layer", "sessions"},
            tokens |-> {"add", "redis", "cache", "layer", "for", "sessions"},
            author |-> None,
            technologies |-> {"Redis"},
            indicators |-> [high |-> {}, medium |-> {}, low |-> {}]]
      [] id = "jira_2" ->
           [id |-> id, platform |-> JIRA, evidence_date |-> 14,
            title_keys |-> <<"TEST-2">>, description_keys |-> <<>>,
            metadata_key |-> NoKey, has_branch_name |-> FALSE,
            branch_issue_keys |-> {}, branch_pattern_keys |-> <<>>,
            solve_keyword |-> FALSE, reference_keyword |-> FALSE,
            keywords |-> {"test", "cache", "layer", "introduce"},
            tokens |-> {"test-2:", "cache", "layer", "introduce"},
            author |-> None,
            technologies |-> {},
            indicators |-> [high |-> {}, medium |-> {}, low |-> {}]]
      [] id = "gitlab_3" ->
           [id |-> id, platform |-> GITLAB, evidence_date |-> 12,
            title_keys |-> <<>>, description_keys |-> <<>>,
            metadata_key |-> NoKey, has_branch_name |-> FALSE,
            branch_issue_keys |-> {}, branch_pattern_keys |-> <<>>,
            solve_keyword |-> FALSE, reference_keyword |-> FALSE,
            keywords |-> {"update", "readme", "docs", "cleanup"},
            tokens |-> {"update", "readme", "docs", "cleanup"},
            author |-> None,
            technologies |-> {},
            indicators |-> [high |-> {}, medium |-> {}, low |-> {"update"}]]
      [] id = "gitlab_4" ->
           [id |-> id, platform |-> GITLAB, evidence_date |-> 13,
            title_keys |-> <<>>, description_keys |-> <<>>,
            metadata_key |-> NoKey, has_branch_name |-> TRUE,
            branch_issue_keys |-> {}, branch_pattern_keys |-> <<"TEST-2">>,
            solve_keyword |-> FALSE, reference_keyword |-> FALSE,
            keywords |-> {"refactor", "cache", "internal", "cleanup"},
            tokens |-> {"refactor", "cache", "internal", "cleanup"},
            author |-> None,
            technologies |-> {},
            indicators |-> [high |-> {}, medium |-> {}, low |-> {}]]
      [] OTHER ->
           [id |-> id, platform |-> DOCUMENT, evidence_date |-> 10,
            title_keys |-> <<>>, description_keys |-> <<>>,
            metadata_key |-> NoKey, has_branch_name |-> FALSE,
            branch_issue_keys |-> {}, branch_pattern_keys |-> <<>>,
            solve_keyword |-> FALSE, reference_keyword |-> FALSE,
            keywords |-> {"design", "notes", "cache"},
            tokens |-> {"design", "notes", "cache"},
            author |-> None,
            technologies |-> {},
            indicators |-> [high |-> {}, medium |-> {}, low |-> {}]]

\* the evidence lists: the empty list and the lists of at most MaxItems
\* catalog items, in catalog order or in reverse catalog order
SubSeqOf(S) == SelectSeq(CatalogOrder, LAMBDA id : id \in S)
Reverse(s) == [i \in 1..Len(s) |-> s[Len(s) + 1 - i]]

EvidenceLists ==
    LET small == {S \in SUBSET CatalogIds : Cardinality(S) <= MaxItems}
    IN {SubSeqOf(S) : S \in small} \cup {Reverse(SubSeqOf(S)) : S \in small}

ItemsOf(ids) == [i \in 1..Len(ids) |-> UnifiedEvidenceItem(ids[i])]

(***************************************************************************)
(* Relationships (models/correlation_models.py)                            *)
(***************************************************************************)
SOLVES == "solves"
REFERENCES == "references"
RELATED_TO == "related_to"
DUPLICATE == "duplicate"
SEQUENTIAL == "sequential"
CAUSAL == "causal"
SEMANTIC_SIMILARITY == "semantic_similarity"

ISSUE_KEY == "issue_key"
BRANCH_NAME == "branch_name"
CONTENT_ANALYSIS == "content_analysis"
TEMPORAL_PROXIMITY == "temporal_proximity"
AUTHOR_CORRELATION == "author_correlation"
MANUAL == "manual"
LLM_SEMANTIC == "llm_semantic"

\* the fields a relationship object has; reading any other attribute of it
\* raises AttributeError
EvidenceRelationshipFields ==
    {"id", "primary_evidence_id", "related_evidence_id", "relationship_type",
     "confidence_score", "detection_method", "evidence_summary", "detected_at",
     "metadata"}

\* a metadata dict; an absent key is <<>>, a present one <<value>>
NoMetadata ==
    [similarity_score |-> <<>>, llm_validation |-> FALSE, llm_confidence |-> <<>>]

EvidenceRelationship(primary, related, type, confidence, method, metadata) ==
    [primary_evidence_id |-> primary, related_evidence_id |-> related,
     relationship_type |-> type, confidence_score |-> confidence,
     detection_method |-> method, metadata |-> metadata]

(***************************************************************************)
(* JIRA-GitLab linker (algorithms/jira_gitlab_linker.py)                   *)
(***************************************************************************)
Indices(s) == [i \in 1..Len(s) |-> i]

_extract_jira_key_from_item(jira_item) ==
    IF jira_item.title_keys # <<>> THEN jira_item.title_keys[1]
    ELSE IF jira_item.metadata_key # NoKey THEN jira_item.metadata_key
    ELSE IF jira_item.description_keys # <<>> THEN jira_item.description_keys[1]
    ELSE NoKey

\* key -> the last item of the list that carries the key
_create_jira_key_map(jira_items) ==
    LET keyed == {i \in 1..Len(jira_items) :
                     _extract_jira_key_from_item(jira_items[i]) # NoKey}
        keys == {_extract_jira_key_from_item(jira_items[i]) : i \in keyed}
        last(k) == CHOOSE i \in keyed :
                      /\ _extract_jira_key_from_item(jira_items[i]) = k
                      /\ \A j \in keyed :
                            _extract_jira_key_from_item(jira_items[j]) = k => j <= i
    IN [k \in keys |-> jira_items[last(k)]]

_determine_relationship_type(gitlab_item, jira_key) ==
    LET in_content == jira_key \in Range(gitlab_item.title_keys)
                                   \cup Range(gitlab_item.description_keys)
    IN IF gitlab_item.solve_keyword /\ in_content THEN SOLVES
       ELSE IF gitlab_item.reference_keyword /\ in_content THEN REFERENCES
       ELSE RELATED_TO

_detect_issue_key_references(gitlab_item, jira_key_map) ==
    LET metadata_keys == IF gitlab_item.has_branch_name
                         THEN gitlab_item.branch_issue_keys ELSE {}
        all_keys == Range(gitlab_item.title_keys)
                    \cup Range(gitlab_item.description_keys) \cup metadata_keys
        found == SetToSeq(all_keys \cap DOMAIN jira_key_map)
    IN [i \in 1..Len(found) |->
           EvidenceRelationship(gitlab_item.id, jira_key_map[found[i]].id,
               _determine_relationship_type(gitlab_item, found[i]),
               Pct(90), ISSUE_KEY, NoMetadata)]

_detect_branch_name_patterns(gitlab_item, jira_key_map) ==
    IF ~gitlab_item.has_branch_name THEN <<>>
    ELSE LET found == SelectSeq(gitlab_item.branch_pattern_keys,
                                LAMBDA k : k \in DOMAIN jira_key_map)
         IN [i \in 1..Len(found) |->
                EvidenceRelationship(gitlab_item.id, jira_key_map[found[i]].id,
                    RELATED_TO, Pct(70), BRANCH_NAME, NoMetadata)]

\* Jaccard similarity of two keyword sets
_calculate_keyword_similarity(keywords1, keywords2) ==
    IF keywords1 = {} \/ keywords2 = {} THEN 0
    ELSE (Cardinality(keywords1 \cap keywords2) * Q)
             \div Cardinality(keywords1 \cup keywords2)

_detect_content_similarity(gitlab_item, jira_items) ==
    LET sim(i) == _calculate_keyword_similarity(gitlab_item.keywords,
                                               jira_items[i].keywords)
        similar == SelectSeq(Indices(jira_items), LAMBDA i : sim(i) > Pct(30))
    IN [k \in 1..Len(similar) |->
           EvidenceRelationship(gitlab_item.id, jira_items[similar[k]].id,
               RELATED_TO, (sim(similar[k]) * 6) \div 10, CONTENT_ANALYSIS,
               [NoMetadata EXCEPT !.similarity_score = <<sim(similar[k])>>])]

\* a variant that keeps every detected relationship
keep_all_relationships(relationships) == relationships

\* a variant that keeps the last relationship detected for each pair
keep_last_relationships(relationships) ==
    SelectSeq(relationships,
              LAMBDA rel : \A k \in 1..Len(relationships) :
                  (/\ relationships[k].primary_evidence_id = rel.primary_evidence_id
                   /\ relationships[k].related_evidence_id = rel.related_evidence_id)
                  => \E j \in k..Len(relationships) : relationships[j] = rel)

\* one relationship per (primary, related): the first of highest confidence,
\* in the order the pairs first occur
_deduplicate_relationships(relationships) ==
    LET key(i) == <<relationships[i].primary_evidence_id,
                    relationships[i].related_evidence_id>>
        n == Len(relationships)
        first == SelectSeq(Indices(relationships),
                           LAMBDA i : \A j \in 1..(i - 1) : key(j) # key(i))
        kept(i) ==
            CHOOSE j \in 1..n :
                /\ key(j) = key(i)
                /\ \A k \in 1..n : key(k) = key(i) =>
                      /\ relationships[k].confidence_score
                             <= relationships[j].confidence_score
                      /\ k < j => relationships[k].confidence_score
                                      < relationships[j].confidence_score
    IN [k \in 1..Len(first) |-> relationships[kept(first[k])]]

\* a variant that runs the content strategy for every item
relationships_of_every_strategy(gitlab_item, jira_items, jira_key_map) ==
    _detect_issue_key_references(gitlab_item, jira_key_map)
    \o _detect_branch_name_patterns(gitlab_item, jira_key_map)
    \o _detect_content_similarity(gitlab_item, jira_items)

relationships_of_item(gitlab_item, jira_items, jira_key_map) ==
    LET issue_key_relationships ==
            _detect_issue_key_references(gitlab_item, jira_key_map)
        branch_relationships ==
            _detect_branch_name_patterns(gitlab_item, jira_key_map)
    IN issue_key_relationships \o branch_relationships \o
       (IF issue_key_relationships = <<>> /\ branch_relationships = <<>>
        THEN _detect_content_similarity(gitlab_item, jira_items)
        ELSE <<>>)

undeduplicated_relationships(gitlab_items, jira_items) ==
    LET jira_key_map == _create_jira_key_map(jira_items)
    IN Flatten([i \in 1..Len(gitlab_items) |->
                   relationships_of_item(gitlab_items[i], jira_items, jira_key_map)])

detect_relationships(gitlab_items, jira_items) ==
    _deduplicate_relationships(undeduplicated_relationships(gitlab_items, jira_items))

(***************************************************************************)
(* Confidence scorer (algorithms/confidence_scorer.py)                     *)
(***************************************************************************)
method_confidence(detection_method) ==
    CASE detection_method = ISSUE_KEY -> Pct(90)
      [] detection_method = BRANCH_NAME -> Pct(70)
      [] detection_method = CONTENT_ANALYSIS -> Pct(40)
      [] detection_method = TEMPORAL_PROXIMITY -> Pct(30)
      [] detection_method = AUTHOR_CORRELATION -> Pct(50)
      [] detection_method = MANUAL -> Pct(100)
      [] OTHER -> Pct(30)

_calculate_temporal_bonus(primary_item, related_item) ==
    LET time_diff == Abs(primary_item.evidence_date - related_item.evidence_date)
    IN IF time_diff = 0 THEN Pct(10)
       ELSE IF time_diff <= 7 THEN (Pct(10) * (7 - time_diff)) \div 7
       ELSE 0

_calculate_author_bonus(primary_item, related_item) ==
    IF /\ primary_item.author # None
       /\ related_item.author # None
       /\ primary_item.author = related_item.author
    THEN Pct(10) ELSE 0

_calculate_content_bonus(relationship, primary_item, related_item) ==
    IF relationship.detection_method = CONTENT_ANALYSIS
    THEN IF relationship.metadata.similarity_score = <<>> THEN 0
         ELSE (relationship.metadata.similarity_score[1] * 2) \div 10
    ELSE IF primary_item.tokens # {} /\ related_item.tokens # {}
         THEN (Cardinality(primary_item.tokens \cap related_item.tokens) * Pct(10))
                 \div Cardinality(primary_item.tokens \cup related_item.tokens)
         ELSE 0

_calculate_relationship_bonus(relationship_type) ==
    CASE relationship_type = SOLVES -> Pct(10)
      [] relationship_type = REFERENCES -> Pct(5)
      [] relationship_type = RELATED_TO -> 0
      [] relationship_type = DUPLICATE -> Pct(10)
      [] relationship_type = SEQUENTIAL -> Pct(5)
      [] relationship_type = CAUSAL -> Pct(10)
      [] OTHER -> 0

\* a variant of the scorer that returns the sum as it is
unclamped_score(relationship, primary_item, related_item) ==
    method_confidence(relationship.detection_method)
    + _calculate_temporal_bonus(primary_item, related_item)
    + _calculate_author_bonus(primary_item, related_item)
    + _calculate_content_bonus(relationship, primary_item, related_item)
    + _calculate_relationship_bonus(relationship.relationship_type)

\* a variant of the scorer whose lookup of the method always misses and
\* gives the default base
score_from_default_base(relationship, primary_item, related_item) ==
    LET total_confidence ==
            Pct(30)
            + _calculate_temporal_bonus(primary_item, related_item)
            + _calculate_author_bonus(primary_item, related_item)
            + _calculate_content_bonus(relationship, primary_item, related_item)
            + _calculate_relationship_bonus(relationship.relationship_type)
    IN Max2(0, Min2(Q, total_confidence))

score_relationship(relationship, primary_item, related_item) ==
    LET total_confidence ==
            method_confidence(relationship.detection_method)
            + _calculate_temporal_bonus(primary_item, related_item)
            + _calculate_author_bonus(primary_item, related_item)
            + _calculate_content_bonus(relationship, primary_item, related_item)
            + _calculate_relationship_bonus(relationship.relationship_type)
    IN Max2(0, Min2(Q, total_confidence))

(***************************************************************************)
(* Work story grouper (algorithms/work_story_grouper.py)                   *)
(* A story is [kind, evidence_items, relationships, duration,              *)
(* complexity_score, technology_stack, patterns_analyzed]; evidence_items  *)
(* is the set of the ids of its items, duration a number of days.          *)
(***************************************************************************)
min_confidence_for_grouping == Pct(50)

RECURSIVE RemoveDuplicates(_)
\* the sequence without the later occurrences of its elements
RemoveDuplicates(s) ==
    IF s = <<>> THEN <<>>
    ELSE LET front == RemoveDuplicates(SubSeq(s, 1, Len(s) - 1))
             x == s[Len(s)]
         IN IF x \in Range(front) THEN front ELSE Append(front, x)

IdsOf(items) == [i \in 1..Len(items) |-> items[i].id]

\* [nodes |-> the graph's keys in insertion order, adj |-> key -> neighbours]:
\* every evidence id is a node, and so is every endpoint of a relationship
_build_relationship_graph(evidence_items, relationships) ==
    LET endpoints == Flatten([i \in 1..Len(relationships) |->
                                 <<relationships[i].primary_evidence_id,
                                   relationships[i].related_evidence_id>>])
        nodes == RemoveDuplicates(IdsOf(evidence_items) \o endpoints)
        neighbours(n) ==
            {relationships[i].related_evidence_id :
                 i \in {j \in 1..Len(relationships) :
                           relationships[j].primary_evidence_id = n}}
            \cup
            {relationships[i].primary_evidence_id :
                 i \in {j \in 1..Len(relationships) :
                           relationships[j].related_evidence_id = n}}
    IN [nodes |-> nodes, adj |-> [n \in Range(nodes) |-> neighbours(n)]]

RECURSIVE dfs(_, _)
\* the nodes the depth-first search from the nodes of S visits
dfs(S, adj) ==
    LET T == S \cup UNION {adj[n] : n \in S}
    IN IF T = S THEN S ELSE dfs(T, adj)

_find_connected_components(graph) ==
    LET nodes == graph.nodes
        starts == SelectSeq(Indices(nodes),
                      LAMBDA i : \A j \in 1..(i - 1) :
                                     nodes[i] \notin dfs({nodes[j]}, graph.adj))
    IN [k \in 1..Len(starts) |-> dfs({nodes[starts[k]]}, graph.adj)]

PlatformsOf(items) == {items[i].platform : i \in 1..Len(items)}

_calculate_basic_complexity(items) ==
    LET item_complexity == Min2(Len(items) * Pct(10), Q)
        platform_bonus == (Cardinality(PlatformsOf(items)) - 1) * Pct(20)
    IN Min2(item_complexity + platform_bonus, Q)

DatesOf(items) == {items[i].evidence_date : i \in 1..Len(items)}
SetMin(S) == CHOOSE m \in S : \A x \in S : m <= x
SetMax(S) == CHOOSE m \in S : \A x \in S : m >= x

\* a component's story carries duration = <<end - start>> of its timeline; a
\* story of orphans is built without a duration (<<>>)
WorkStory(kind, items, relationships) ==
    [kind |-> kind, evidence_items |-> Range(IdsOf(items)),
     relationships |-> relationships,
     duration |-> IF kind = "component"
                  THEN <<SetMax(DatesOf(items)) - SetMin(DatesOf(items))>>
                  ELSE <<>>,
     complexity_score |-> _calculate_basic_complexity(items),
     technology_stack |-> {}, patterns_analyzed |-> FALSE]

\* a variant that lists every relationship in every story
all_relationships(component, relationships) == relationships

\* the relationships a component's story lists
component_relationships(component, relationships) ==
    SelectSeq(relationships,
              LAMBDA rel : /\ rel.primary_evidence_id \in component
                           /\ rel.related_evidence_id \in component)

\* <<>> stands for the None the code returns for a component without items
_create_work_story_from_component(component, evidence_items, relationships) ==
    LET evidence_ids == RemoveDuplicates(IdsOf(evidence_items))
        last(id) == CHOOSE i \in 1..Len(evidence_items) :
                       /\ evidence_items[i].id = id
                       /\ \A j \in 1..Len(evidence_items) :
                             evidence_items[j].id = id => j <= i
        member_ids == SelectSeq(evidence_ids, LAMBDA id : id \in component)
        component_items == [k \in 1..Len(member_ids) |->
                               evidence_items[last(member_ids[k])]]
    IN IF component_items = <<>> THEN <<>>
       ELSE <<WorkStory("component", component_items,
                        component_relationships(component, relationships))>>

\* a variant that takes every evidence item for an orphan
every_item_orphaned(evidence_items, connected_components) == evidence_items

_find_orphaned_evidence(evidence_items, connected_components) ==
    LET all_connected_ids == UNION Range(connected_components)
    IN SelectSeq(evidence_items, LAMBDA item : item.id \notin all_connected_ids)

RECURSIVE _group_orphaned_items(_)
_group_orphaned_items(remaining_items) ==
    IF remaining_items = <<>> THEN <<>>
    ELSE LET current_item == Head(remaining_items)
             near(item) ==
                 /\ item.platform = current_item.platform
                 /\ Abs(item.evidence_date - current_item.evidence_date) <= 7
             current_group == <<current_item>>
                              \o SelectSeq(Tail(remaining_items), near)
             rest == SelectSeq(Tail(remaining_items), LAMBDA item : ~near(item))
         IN <<current_group>> \o _group_orphaned_items(rest)

_create_orphaned_stories(orphaned_items, min_evidence_per_story) ==
    LET grouped_orphans == _group_orphaned_items(orphaned_items)
        big == SelectSeq(grouped_orphans,
                         LAMBDA group : Len(group) >= min_evidence_per_story)
    IN [k \in 1..Len(big) |-> WorkStory("orphan", big[k], <<>>)]

\* sort key (len(evidence_items), complexity_score), compared as tuples
StoryKeyGeq(a, b) ==
    \/ Cardinality(a.evidence_items) > Cardinality(b.evidence_items)
    \/ /\ Cardinality(a.evidence_items) = Cardinality(b.evidence_items)
       /\ a.complexity_score >= b.complexity_score

RECURSIVE SortStories(_)
\* list.sort(key, reverse=True): descending and stable
SortStories(stories) ==
    IF stories = <<>> THEN <<>>
    ELSE LET front == SortStories(SubSeq(stories, 1, Len(stories) - 1))
             x == stories[Len(stories)]
             before == SelectSeq(front, LAMBDA s : StoryKeyGeq(s, x))
             after == SelectSeq(front, LAMBDA s : ~StoryKeyGeq(s, x))
         IN before \o <<x>> \o after

component_stories(evidence_items, relationships, min_evidence_per_story) ==
    LET graph == _build_relationship_graph(evidence_items, relationships)
        connected_components == _find_connected_components(graph)
        big == SelectSeq(connected_components,
                   LAMBDA component :
                       Cardinality(component) >= min_evidence_per_story)
    IN Flatten([k \in 1..Len(big) |->
                   _create_work_story_from_component(big[k], evidence_items,
                                                    relationships)])

create_work_stories(evidence_items, relationships, min_evidence_per_story, max_work_stories) ==
    LET high_confidence_relationships ==
            SelectSeq(relationships,
                LAMBDA rel : rel.confidence_score >= min_confidence_for_grouping)
        graph == _build_relationship_graph(evidence_items,
                                          high_confidence_relationships)
        connected_components == _find_connected_components(graph)
        orphaned_items == _find_orphaned_evidence(evidence_items,
                                                 connected_components)
        work_stories ==
            SortStories(
                component_stories(evidence_items, high_confidence_relationships,
                                  min_evidence_per_story)
                \o _create_orphaned_stories(orphaned_items, min_evidence_per_story))
    IN IF Len(work_stories) > max_work_stories
       THEN SubSeq(work_stories, 1, max_work_stories)
       ELSE work_stories

(***************************************************************************)
(* Technology detector (algorithms/technology_detector.py)                 *)
(***************************************************************************)
StoryItems(story) == {UnifiedEvidenceItem(id) : id \in story.evidence_items}

detect_technologies(work_story) ==
    UNION {item.technologies : item \in StoryItems(work_story)}

_analyze_content_complexity(work_story) ==
    LET matches(level) ==
            Cardinality(UNION {item.indicators[level] : item \in StoryItems(work_story)})
        content_score == matches("high") * Pct(5) + matches("medium") * Pct(3)
                         - matches("low") * Pct(2)
    IN Max2(0, Min2(Pct(30), content_score))

calculate_complexity(work_story) ==
    LET item_count_score ==
            Min2(Cardinality(work_story.evidence_items) * Pct(10), Pct(30))
        tech_diversity_score ==
            Min2((Cardinality(work_story.technology_stack) * Q) \div 5, Pct(20))
        platform_count ==
            Cardinality({item.platform : item \in StoryItems(work_story)})
        platform_score == Min2((platform_count * Q) \div 3, Pct(20))
        duration_factor ==
            IF work_story.duration = <<>> \/ work_story.duration = <<0>> THEN 0
            ELSE IF work_story.duration[1] > 30 THEN Pct(10)
            ELSE IF work_story.duration[1] < 3 THEN Pct(5)
            ELSE 0
    IN Max2(0, Min2(Q, item_count_score + tech_diversity_score + platform_score
                       + _analyze_content_complexity(work_story)
                       + duration_factor))

(***************************************************************************)
(* Tiered semantic matcher (services/llm_correlation_service.py)           *)
(* Costs are whole multiples of the cost of one embedding token (0.0001).  *)
(* A cost tracker is [monthly_budget, current_month_usage]; the usage file *)
(* is <<>> while it does not exist and <<[current_month_usage,             *)
(* last_update]>> once written; a time is [year, month].                   *)
(***************************************************************************)
embedding_cost_per_token == 1
llm_cost_per_request == 100
embedding_similarity_threshold == Pct(70)

\* the fields an evidence item object has
UnifiedEvidenceItemFields ==
    {"id", "team_member_id", "source", "title", "description", "category",
     "evidence_date", "source_url", "platform", "data_source", "fallback_used",
     "created_at", "updated_at", "correlation_id", "confidence_score", "metadata"}

\* the fields of the other evidence class of the repository (models/evidence.py)
EvidenceItemFields ==
    {"id", "team_member_id", "title", "description", "source", "category",
     "evidence_date", "source_url", "metadata", "author_name", "author_email",
     "created_at", "updated_at"}

\* a catalog item as an object of that class: same texts, date and source
EvidenceItem(id) ==
    [class |-> "EvidenceItem", author_email |-> UnifiedEvidenceItem(id).author]
        @@ UnifiedEvidenceItem(id)

ClassOf(item) ==
    IF "class" \in DOMAIN item THEN item.class ELSE "UnifiedEvidenceItem"

FieldsOf(item) ==
    IF ClassOf(item) = "EvidenceItem" THEN EvidenceItemFields
    ELSE UnifiedEvidenceItemFields

\* obj.name on an object with the given fields
GetAttr(class, fields, name) ==
    IF name \in fields THEN Ok(name)
    ELSE Raise("'" \o class \o "' object has no attribute '" \o name \o "'")

\* item.author_email
author_email(item) == GetAttr(ClassOf(item), FieldsOf(item), "author_email")

\* item.source: one source type per platform in the catalog
source(item) ==
    CASE item.platform = GITLAB -> "gitlab_commit"
      [] item.platform = JIRA -> "jira_ticket"
      [] OTHER -> "document"

CostTracker(budget, usage) ==
    [monthly_budget |-> budget, current_month_usage |-> usage]

\* a variant that always affords the embedding
always_afford_embedding(tracker, estimated_tokens) == TRUE

can_afford_embedding(tracker, estimated_tokens) ==
    tracker.current_month_usage + estimated_tokens * embedding_cost_per_token
        <= tracker.monthly_budget

\* a variant that always affords the call
always_afford_llm_call(tracker) == TRUE

can_afford_llm_call(tracker) ==
    tracker.current_month_usage + llm_cost_per_request <= tracker.monthly_budget

\* the tracker after record_usage(cost); the caller writes the file
record_usage(tracker, cost) ==
    [tracker EXCEPT !.current_month_usage = @ + cost]

\* a variant that compares year and month
load_usage_of_this_year(file, now) ==
    IF file = <<>> THEN 0
    ELSE IF file[1].last_update # now THEN 0
    ELSE file[1].current_month_usage

\* current_month_usage after load_usage at time now
load_usage(file, now) ==
    IF file = <<>> THEN 0
    ELSE IF file[1].last_update.month # now.month THEN 0
    ELSE file[1].current_month_usage

\* the file after save_usage at time now
save_usage(tracker, now) ==
    <<[current_month_usage |-> tracker.current_month_usage, last_update |-> now]>>

\* the keys the pattern [A-Z]+-\d+ finds in the lower-cased title and
\* description (on the catalog's texts: the keys of title and description)
issue_keys(item) == Range(item.title_keys) \cup Range(item.description_keys)

_has_cross_platform_issue_reference(item1, item2) ==
    issue_keys(item1) \cap issue_keys(item2) # {}

\* within 24 hours
_has_temporal_proximity(item1, item2) ==
    Abs(item1.evidence_date - item2.evidence_date) <= 1

\* the words of 3 letters that are no stop words
three_letter_words(item) ==
    CASE item.id = "gitlab_1" -> {"fix"}
      [] item.id = "gitlab_2" -> {"add"}
      [] OTHER -> {}

\* the words of 3 and more letters that are no stop words
words(item) == item.keywords \cup three_letter_words(item)

_has_keyword_overlap(item1, item2) ==
    IF words(item1) = {} \/ words(item2) = {} THEN FALSE
    ELSE 10 * Cardinality(words(item1) \cap words(item2))
             >= 2 * Min2(Cardinality(words(item1)), Cardinality(words(item2)))

\* rule 1 reads item1.author_email, then item2.author_email, before
\* anything else
_passes_prefilter(item1, item2) ==
    IF author_email(item1).exc # NoExc THEN author_email(item1)
    ELSE IF author_email(item2).exc # NoExc THEN author_email(item2)
    ELSE Ok(\/ /\ item1.author_email = item2.author_email
               /\ source(item1) # source(item2)
            \/ _has_cross_platform_issue_reference(item1, item2)
            \/ _has_temporal_proximity(item1, item2)
            \/ _has_keyword_overlap(item1, item2))

\* the pairs (i, j), i < j, in the order the loops visit them
PairsOf(items) ==
    Flatten([i \in 1..Len(items) |->
                [k \in 1..(Len(items) - i) |-> <<items[i], items[i + k]>>]])

\* tier 1: the first check that raises ends the loops
_prefilter_evidence_pairs(evidence_items) ==
    LET pairs == PairsOf(evidence_items)
        raising == {i \in 1..Len(pairs) :
                       _passes_prefilter(pairs[i][1], pairs[i][2]).exc # NoExc}
    IN IF raising # {}
       THEN Raise(_passes_prefilter(pairs[SetMin(raising)][1],
                                    pairs[SetMin(raising)][2]).exc)
       ELSE Ok(SelectSeq(pairs, LAMBDA p : _passes_prefilter(p[1], p[2]).val))

\* len(f"{title} {description}".split())
word_count(item) ==
    CASE item.id = "gitlab_1" -> 9
      [] item.id = "jira_1" -> 9
      [] item.id = "gitlab_2" -> 8
      [] item.id = "jira_2" -> 6
      [] OTHER -> 4

RECURSIVE estimated_tokens(_)
estimated_tokens(evidence_pairs) ==
    IF evidence_pairs = <<>> THEN 0
    ELSE word_count(Head(evidence_pairs)[1]) + word_count(Head(evidence_pairs)[2])
         + estimated_tokens(Tail(evidence_pairs))

\* What the embedding provider answers to a batch: "fails" (the call
\* raises), or vectors: "similar" (cosine similarity 0.85 on every pair),
\* "dissimilar" (0.4 on every pair) or "mixed" (0.85 on the first pair of
\* the batch and 0.4 on the others).
Embeddings == {"fails", "similar", "dissimilar", "mixed"}

cosine_similarity(embedding, i) ==
    IF embedding = "similar" \/ (embedding = "mixed" /\ i = 1) THEN Pct(85) ELSE Pct(40)

\* get_embeddings returns [] when the provider call raises, and the batch
\* then returns [] for the count mismatch
_process_embedding_batch(evidence_pairs, embedding) ==
    IF embedding = "fails" THEN <<>>
    ELSE LET similar == SelectSeq(Indices(evidence_pairs),
                            LAMBDA i : cosine_similarity(embedding, i)
                                           >= embedding_similarity_threshold)
         IN [k \in 1..Len(similar) |->
                EvidenceRelationship(evidence_pairs[similar[k]][1].id,
                    evidence_pairs[similar[k]][2].id, SEMANTIC_SIMILARITY,
                    Min2(cosine_similarity(embedding, similar[k]), Q),
                    LLM_SEMANTIC, NoMetadata)]

\* str(e) of the TypeError of linker.detect_relationships([item1, item2])
MissingArgumentMessage ==
    "detect_relationships() missing 1 required positional argument: 'jira_items'"

\* the first pair's call of the linker passes one list where the linker
\* takes two
_fallback_rule_based_correlation(evidence_pairs) ==
    IF evidence_pairs = <<>> THEN Ok(<<>>) ELSE Raise(MissingArgumentMessage)

\* A tier's outcome: what it raised or returned, the tracker after it and
\* the cost it recorded.
Outcome(result, tracker, charged) ==
    [exc |-> result.exc, val |-> result.val, tracker |-> tracker,
     charged |-> charged]

\* tier 2 (the lists of the model fit one batch of 20 pairs)
_correlate_with_embeddings(evidence_pairs, tracker, embedding) ==
    IF evidence_pairs = <<>> THEN Outcome(Ok(<<>>), tracker, 0)
    ELSE IF ~can_afford_embedding(tracker, estimated_tokens(evidence_pairs))
    THEN Outcome(_fallback_rule_based_correlation(evidence_pairs), tracker, 0)
    ELSE LET actual_cost == estimated_tokens(evidence_pairs)
                                * embedding_cost_per_token
         IN Outcome(Ok(_process_embedding_batch(evidence_pairs, embedding)),
                    record_usage(tracker, actual_cost), actual_cost)

technical_keywords == {"api", "database", "service", "component", "module", "function"}

\* the first test reads item1.author_email
_is_potential_edge_case(item1, item2) ==
    IF author_email(item1).exc # NoExc THEN author_email(item1)
    ELSE IF author_email(item2).exc # NoExc THEN author_email(item2)
    ELSE Ok(\/ item1.author_email = item2.author_email
            \/ /\ source(item1) # source(item2)
               /\ _has_temporal_proximity(item1, item2)
            \/ /\ technical_keywords \cap item1.tokens # {}
               /\ technical_keywords \cap item2.tokens # {})

\* the pairs without a relationship of tier 2 that pass the heuristics, at
\* most 10 of them
_identify_edge_cases(all_pairs, found_relationships) ==
    LET related_pairs == {{rel.primary_evidence_id, rel.related_evidence_id} :
                             rel \in Range(found_relationships)}
        open == SelectSeq(all_pairs,
                          LAMBDA p : {p[1].id, p[2].id} \notin related_pairs)
        raising == {i \in 1..Len(open) :
                       _is_potential_edge_case(open[i][1], open[i][2]).exc # NoExc}
        edge_cases == SelectSeq(open,
                          LAMBDA p : _is_potential_edge_case(p[1], p[2]).val)
    IN IF raising # {}
       THEN Raise(_is_potential_edge_case(open[SetMin(raising)][1],
                                          open[SetMin(raising)][2]).exc)
       ELSE Ok(SubSeq(edge_cases, 1, Min2(Len(edge_cases), 10)))

\* What the LLM provider answers to one adjudication call: a verdict
\* [is_related, confidence], or no usable answer ("error": the call raises
\* or the text holds no JSON object).
Verdict(is_related, confidence) ==
    [kind |-> "verdict", is_related |-> is_related, confidence |-> confidence]

Verdicts ==
    {Verdict(TRUE, Pct(80)), Verdict(TRUE, Pct(50)), Verdict(FALSE, Pct(20)),
     Verdict(TRUE, Pct(120)),
     [kind |-> "error", is_related |-> FALSE, confidence |-> 0]}

\* The prompt reads item1.author_email before the try block, so that read
\* raises to the caller; inside the try block everything that raises (the
\* provider, the parser, the validation of a confidence outside [0, 1])
\* gives None (<<>>).
_analyze_pair_with_llm(item1, item2, verdict) ==
    IF author_email(item1).exc # NoExc THEN author_email(item1)
    ELSE IF author_email(item2).exc # NoExc THEN author_email(item2)
    ELSE Ok(IF /\ verdict.kind = "verdict"
               /\ verdict.is_related
               /\ verdict.confidence >= Pct(60)
               /\ verdict.confidence <= Q
            THEN <<EvidenceRelationship(item1.id, item2.id, SEMANTIC_SIMILARITY,
                       verdict.confidence, LLM_SEMANTIC, NoMetadata)>>
            ELSE <<>>)

\* The state of tier 3's loop: the candidates not yet visited, the
\* relationships found, the tracker, the cost recorded and, per iteration,
\* [pair, usage (at its start), outcome, error_logged]: the outcome is
\* "break", "raised" (the analysis raised before any provider call) or
\* "called", and error_logged tells whether logger.error reported a failure
\* for the pair.
LoopState(edge_cases, tracker) ==
    [edge_cases |-> edge_cases, relationships |-> <<>>, tracker |-> tracker,
     charged |-> 0, iterations |-> <<>>]

Iteration(pair, tracker, outcome, error_logged) ==
    [pair |-> <<pair[1].id, pair[2].id>>,
     usage |-> tracker.current_month_usage, outcome |-> outcome,
     error_logged |-> error_logged]

\* the provider call raises, its text holds no JSON object, or the
\* relationship cannot be built from its answer
call_fails(verdict) ==
    \/ verdict.kind = "error"
    \/ /\ verdict.is_related
       /\ verdict.confidence >= Pct(60)
       /\ verdict.confidence > Q

\* a variant that gives up the remaining candidates after a failed call
llm_iteration_aborting_on_failure(loop, verdict) ==
    LET pair == Head(loop.edge_cases)
        relationship == _analyze_pair_with_llm(pair[1], pair[2], verdict)
    IN IF ~can_afford_llm_call(loop.tracker)
       THEN [loop EXCEPT !.edge_cases = <<>>,
                         !.iterations = Append(@, Iteration(pair, loop.tracker, "break", FALSE))]
       ELSE IF relationship.exc # NoExc
       THEN [loop EXCEPT !.edge_cases = Tail(@),
                         !.iterations = Append(@, Iteration(pair, loop.tracker, "raised", TRUE))]
       ELSE [loop EXCEPT !.edge_cases = IF call_fails(verdict) THEN <<>> ELSE Tail(@),
                         !.relationships = @ \o relationship.val,
                         !.tracker = record_usage(@, llm_cost_per_request),
                         !.charged = @ + llm_cost_per_request,
                         !.iterations = Append(@, Iteration(pair, loop.tracker, "called",
                                                    call_fails(verdict)))]

\* a variant that records the cost of accepted relationships only
llm_iteration_charging_accepted(loop, verdict) ==
    LET pair == Head(loop.edge_cases)
        relationship == _analyze_pair_with_llm(pair[1], pair[2], verdict)
    IN IF ~can_afford_llm_call(loop.tracker)
       THEN [loop EXCEPT !.edge_cases = <<>>,
                         !.iterations = Append(@, Iteration(pair, loop.tracker, "break", FALSE))]
       ELSE IF relationship.exc # NoExc
       THEN [loop EXCEPT !.edge_cases = Tail(@),
                         !.iterations = Append(@, Iteration(pair, loop.tracker, "raised", TRUE))]
       ELSE IF relationship.val = <<>>
       THEN [loop EXCEPT !.edge_cases = Tail(@),
                         !.iterations = Append(@, Iteration(pair, loop.tracker, "called",
                                                    call_fails(verdict)))]
       ELSE [loop EXCEPT !.edge_cases = Tail(@),
                         !.relationships = @ \o relationship.val,
                         !.tracker = record_usage(@, llm_cost_per_request),
                         !.charged = @ + llm_cost_per_request,
                         !.iterations = Append(@, Iteration(pair, loop.tracker, "called",
                                                    call_fails(verdict)))]

\* one iteration of tier 3's loop on the next candidate
llm_iteration(loop, verdict) ==
    LET pair == Head(loop.edge_cases)
        relationship == _analyze_pair_with_llm(pair[1], pair[2], verdict)
    IN IF ~can_afford_llm_call(loop.tracker)
       THEN [loop EXCEPT !.edge_cases = <<>>,
                         !.iterations = Append(@, Iteration(pair, loop.tracker, "break", FALSE))]
       ELSE IF relationship.exc # NoExc
       THEN [loop EXCEPT !.edge_cases = Tail(@),
                         !.iterations = Append(@, Iteration(pair, loop.tracker, "raised", TRUE))]
       ELSE [loop EXCEPT !.edge_cases = Tail(@),
                         !.relationships = @ \o relationship.val,
                         !.tracker = record_usage(@, llm_cost_per_request),
                         !.charged = @ + llm_cost_per_request,
                         !.iterations = Append(@, Iteration(pair, loop.tracker, "called",
                                                    call_fails(verdict)))]

RECURSIVE llm_loop(_, _)
\* the loop run to its end, the provider answering every call with verdict
llm_loop(loop, verdict) ==
    IF loop.edge_cases = <<>> THEN loop
    ELSE llm_loop(llm_iteration(loop, verdict), verdict)

\* tier 3
_correlate_edge_cases_with_llm(edge_cases, tracker, verdict) ==
    LET loop == llm_loop(LoopState(edge_cases, tracker), verdict)
    IN Outcome(Ok(loop.relationships), loop.tracker, loop.charged)

\* Tiers 1 and 2 and the choice of the candidates of tier 3: what this
\* part raised (exc), or the relationships of tier 2 (val) and the
\* candidates (edge_cases; none when tier 1 admits no pair).
after_edge_case_selection(semantic_relationships, edge_case_pairs) ==
    IF edge_case_pairs.exc # NoExc
    THEN Outcome(edge_case_pairs, semantic_relationships.tracker,
                 semantic_relationships.charged) @@ [edge_cases |-> <<>>]
    ELSE semantic_relationships @@ [edge_cases |-> edge_case_pairs.val]

after_tier_2(filtered_pairs, semantic_relationships) ==
    IF semantic_relationships.exc # NoExc
    THEN semantic_relationships @@ [edge_cases |-> <<>>]
    ELSE after_edge_case_selection(semantic_relationships,
             _identify_edge_cases(filtered_pairs.val, semantic_relationships.val))

after_tier_1(filtered_pairs, tracker, embedding) ==
    IF filtered_pairs.exc # NoExc
    THEN Outcome(filtered_pairs, tracker, 0) @@ [edge_cases |-> <<>>]
    ELSE IF filtered_pairs.val = <<>>
    THEN Outcome(Ok(<<>>), tracker, 0) @@ [edge_cases |-> <<>>]
    ELSE after_tier_2(filtered_pairs,
             _correlate_with_embeddings(filtered_pairs.val, tracker, embedding))

semantic_tiers(evidence_items, tracker, embedding) ==
    after_tier_1(_prefilter_evidence_pairs(evidence_items), tracker, embedding)

all_relationships_of(first, llm_relationships) ==
    Outcome(Ok(first.val \o llm_relationships.val), llm_relationships.tracker,
            first.charged + llm_relationships.charged)

\* tier 3 and the combination of the relationships, after tiers 1 and 2
after_semantic_tiers(first, verdict) ==
    IF first.exc # NoExc THEN Outcome(first, first.tracker, first.charged)
    ELSE all_relationships_of(first,
             _correlate_edge_cases_with_llm(first.edge_cases, first.tracker, verdict))

\* the matcher run as one call
correlate_evidence_with_llm(evidence_items, tracker, embedding, verdict) ==
    after_semantic_tiers(semantic_tiers(evidence_items, tracker, embedding), verdict)

(***************************************************************************)
(* Correlation engine (services/correlation_engine.py)                     *)
(* A request is [evidence_items, confidence_threshold, max_work_stories,   *)
(* min_evidence_per_story, analyze_work_patterns, detect_technology_stack, *)
(* generate_insights]; evidence_items is <<>> for None and <<ids>> for a   *)
(* list of items.                                                          *)
(***************************************************************************)
\* {item.id: item for item in evidence_items}
evidence_map(evidence_items) ==
    [id \in Range(IdsOf(evidence_items)) |->
        evidence_items[CHOOSE i \in 1..Len(evidence_items) :
                          /\ evidence_items[i].id = id
                          /\ \A j \in 1..Len(evidence_items) :
                                evidence_items[j].id = id => j <= i]]

\* a variant of step 1 that hands the whole list to the linker on both sides
_detect_relationships_without_split(evidence_items) ==
    IF \E i, j \in 1..Len(evidence_items) :
           /\ evidence_items[i].platform = GITLAB
           /\ evidence_items[j].platform = JIRA
    THEN detect_relationships(evidence_items, evidence_items)
    ELSE <<>>

_detect_relationships(evidence_items) ==
    LET gitlab_items == SelectSeq(evidence_items, LAMBDA item : item.platform = GITLAB)
        jira_items == SelectSeq(evidence_items, LAMBDA item : item.platform = JIRA)
    IN IF gitlab_items # <<>> /\ jira_items # <<>>
       THEN detect_relationships(gitlab_items, jira_items)
       ELSE <<>>

\* a variant that keeps the relationships it cannot resolve, unscored
_score_relationships_keeping_unresolved(relationships, evidence_items) ==
    LET items == evidence_map(evidence_items)
    IN [k \in 1..Len(relationships) |->
           IF /\ relationships[k].primary_evidence_id \in DOMAIN items
              /\ relationships[k].related_evidence_id \in DOMAIN items
           THEN [relationships[k] EXCEPT !.confidence_score =
                    score_relationship(relationships[k],
                                       items[relationships[k].primary_evidence_id],
                                       items[relationships[k].related_evidence_id])]
           ELSE relationships[k]]

_score_relationships(relationships, evidence_items) ==
    LET items == evidence_map(evidence_items)
        resolved == SelectSeq(relationships,
                        LAMBDA rel : /\ rel.primary_evidence_id \in DOMAIN items
                                     /\ rel.related_evidence_id \in DOMAIN items)
    IN [k \in 1..Len(resolved) |->
           [resolved[k] EXCEPT !.confidence_score =
                score_relationship(resolved[k],
                                   items[resolved[k].primary_evidence_id],
                                   items[resolved[k].related_evidence_id])]]

\* a variant of step 3 that keeps every scored relationship
unfiltered_relationships(scored_relationships, confidence_threshold) ==
    scored_relationships

\* step 3: the relationships at or above the request's threshold
filter_relationships(scored_relationships, confidence_threshold) ==
    SelectSeq(scored_relationships,
              LAMBDA rel : rel.confidence_score >= confidence_threshold)

_create_work_stories(evidence_items, relationships, req) ==
    create_work_stories(evidence_items, relationships,
                        req.min_evidence_per_story, req.max_work_stories)

\* updates each story's timeline and metadata in place
_analyze_work_patterns(work_stories) ==
    [k \in 1..Len(work_stories) |-> [work_stories[k] EXCEPT !.patterns_analyzed = TRUE]]

_detect_technology_stacks(work_stories) ==
    [k \in 1..Len(work_stories) |->
        LET story == [work_stories[k] EXCEPT
                         !.technology_stack = detect_technologies(work_stories[k])]
        IN [story EXCEPT !.complexity_score = calculate_complexity(story)]]

RECURSIVE SumConfidence(_)
SumConfidence(relationships) ==
    IF relationships = <<>> THEN 0
    ELSE Head(relationships).confidence_score + SumConfidence(Tail(relationships))

_generate_insights(evidence_items, work_stories, relationships) ==
    [total_work_stories |-> Len(work_stories),
     total_relationships |-> Len(relationships),
     avg_confidence_score |->
         IF relationships # <<>>
         THEN SumConfidence(relationships) \div Len(relationships)
         ELSE 0]

\* the engine's service, and what the providers answer to the engine's runs
EngineService == 1
provider_embedding == "similar"
provider_verdict == Verdict(TRUE, Pct(80))

\* a variant of the matcher run in which the engine's items carry
\* author_email
llm_enhancement_with_author_email(evidence_items) ==
    correlate_evidence_with_llm(
        [i \in 1..Len(evidence_items) |-> EvidenceItem(evidence_items[i].id)],
        services[EngineService].tracker, provider_embedding, provider_verdict)

\* the matcher run of step 7 on the engine's service
llm_enhancement(evidence_items) ==
    correlate_evidence_with_llm(evidence_items, services[EngineService].tracker,
                                provider_embedding, provider_verdict)

\* whatever the matcher raises is logged and the step returns []
logged(matcher) ==
    [val |-> IF matcher.exc # NoExc THEN <<>> ELSE matcher.val,
     tracker |-> <<matcher.tracker>>, charged |-> matcher.charged]

\* step 7: the relationships it returns, the tracker the matcher run left
\* and the cost the run recorded
_step_7_llm_enhancement(evidence_items) ==
    IF llm_service = "none" THEN [val |-> <<>>, tracker |-> <<>>, charged |-> 0]
    ELSE logged(llm_enhancement(evidence_items))

\* the first loop reads rel.evidence_id_1 of the first existing relationship,
\* the second llm_rel.evidence_id_1 of the first matcher relationship
_merge_relationships(existing_relationships, llm_relationships) ==
    LET read == GetAttr("EvidenceRelationship", EvidenceRelationshipFields,
                        "evidence_id_1")
    IN CASE existing_relationships # <<>> /\ read.exc # NoExc -> Raise(read.exc)
         [] existing_relationships = <<>> /\ llm_relationships # <<>>
                /\ read.exc # NoExc -> Raise(read.exc)
         [] existing_relationships = <<>> /\ llm_relationships = <<>> ->
                Ok(existing_relationships)

NoEvidenceMessage == "No evidence items provided for correlation"

\* str(e) of the UnboundLocalError the read of a never-assigned local raises
UnboundLocalMessage ==
    "local variable 'enhanced_relationships' referenced before assignment"

\* str(e) of the exception a faulty component raises when it is called
FaultMessage(component) == component \o " raised"

CorrelationResponse(success, correlated_collection, items_processed, relationships_detected, work_stories_created, errors) ==
    [success |-> success, correlated_collection |-> correlated_collection,
     items_processed |-> items_processed,
     relationships_detected |-> relationships_detected,
     work_stories_created |-> work_stories_created, errors |-> errors]

\* a variant of the validation step that lets an empty list through
no_evidence_accepted ==
    CorrelationResponse(TRUE, <<>>, 0, 0, 0, <<>>)

\* the response of the validation step to an empty or missing evidence list
no_evidence_response ==
    CorrelationResponse(FALSE, <<>>, 0, 0, 0, <<NoEvidenceMessage>>)

\* a variant of the except clause that reports no item as processed
exception_response_without_count(req, e) ==
    CorrelationResponse(FALSE, <<>>, 0, 0, 0, <<"Correlation engine error: " \o e>>)

\* the response of the except clause to the exception with message e
exception_response(req, e) ==
    CorrelationResponse(FALSE, <<>>,
        Len(IF req.evidence_items = <<>> THEN <<>> ELSE req.evidence_items[1]),
        0, 0, <<"Correlation engine error: " \o e>>)

success_response(evidence_items, work_stories, enhanced_relationships, insights) ==
    CorrelationResponse(TRUE,
        <<[evidence_items |-> IdsOf(evidence_items),
           work_stories |-> work_stories,
           relationships |-> enhanced_relationships,
           insights |-> insights]>>,
        Len(evidence_items), Len(enhanced_relationships), Len(work_stories), <<>>)

\* The record of a call on a non-empty list.  order is the stages the call
\* enters if none raises and raises[i] what stage order[i] raises (NoExc:
\* nothing); the call enters the stages up to the first that raises.
RunRecord(req, order, raises, relationships, scored_relationships, filtered_relationships, grouped, enhancement, success) ==
    LET failing == {i \in 1..Len(order) : raises[i] # NoExc}
        stages == IF failing = {} THEN order ELSE SubSeq(order, 1, SetMin(failing))
        raised == IF failing = {} THEN NoExc ELSE raises[SetMin(failing)]
        entered(stage) == \E i \in 1..Len(stages) : stages[i] = stage
        done(stage, value) ==
            IF \E i \in 1..Len(stages) : stages[i] = stage /\ raises[i] = NoExc
            THEN value ELSE <<>>
    IN [called |-> TRUE, request |-> req, stages |-> stages, raised |-> raised,
        relationships |-> done("detect", relationships),
        scored_relationships |-> done("score", scored_relationships),
        filtered_relationships |-> done("filter", filtered_relationships),
        grouped |-> done("group", grouped),
        llm_relationships |-> done("llm", enhancement.val),
        llm_tracker |-> done("llm", enhancement.tracker),
        llm_charged |-> IF entered("llm") THEN enhancement.charged ELSE 0,
        response |-> IF raised # NoExc THEN exception_response(req, raised)
                     ELSE success]

\* One call of correlate_evidence: the stages it entered, in order (the
\* last one is the stage that raised, if one did), the value each completed
\* stage produced (<<>> for a stage that did not complete) and the response.
\* enhancement is what step 7 gives in this call, if the call gets there.
correlate_evidence(req, enhancement) ==
    LET evidence_items == ItemsOf(IF req.evidence_items = <<>> THEN <<>>
                                  ELSE req.evidence_items[1])
        llm_branch == enable_llm /\ llm_service # "none"
        relationships == _detect_relationships(evidence_items)
        scored_relationships == _score_relationships(relationships, evidence_items)
        filtered_relationships ==
            filter_relationships(scored_relationships, req.confidence_threshold)
        grouped == _create_work_stories(evidence_items, filtered_relationships, req)
        analyzed == IF req.analyze_work_patterns
                    THEN _analyze_work_patterns(grouped) ELSE grouped
        work_stories == IF req.detect_technology_stack
                        THEN _detect_technology_stacks(analyzed) ELSE analyzed
        insights == IF req.generate_insights
                    THEN <<_generate_insights(evidence_items, work_stories,
                                              filtered_relationships)>>
                    ELSE <<>>
        llm_relationships == enhancement.val
        merged == _merge_relationships(filtered_relationships, llm_relationships)
        order == <<"detect", "score", "filter", "group">>
                 \o (IF req.analyze_work_patterns THEN <<"patterns">> ELSE <<>>)
                 \o (IF req.detect_technology_stack THEN <<"technology">> ELSE <<>>)
                 \o (IF req.generate_insights THEN <<"insights">> ELSE <<>>)
                 \o (IF llm_branch THEN <<"llm", "merge">> ELSE <<>>)
                 \o <<"collection">>
        \* a stage raises when it calls the faulty component, when the merge
        \* raises, or when it reads enhanced_relationships unassigned
        calls(stage) ==
            CASE stage = "detect" ->
                   IF \E i, j \in 1..Len(evidence_items) :
                          /\ evidence_items[i].platform = GITLAB
                          /\ evidence_items[j].platform = JIRA
                   THEN "linker" ELSE "nothing"
              [] stage = "score" ->
                   IF scored_relationships # <<>> THEN "scorer" ELSE "nothing"
              [] stage = "group" -> "grouper"
              [] stage = "patterns" ->
                   IF grouped # <<>> THEN "timeline_analyzer" ELSE "nothing"
              [] stage = "technology" ->
                   IF grouped # <<>> THEN "technology_detector" ELSE "nothing"
              [] stage = "insights" -> "timeline_analyzer"
              [] OTHER -> "nothing"
        raises(stage) ==
            IF fault # "none" /\ calls(stage) = fault THEN FaultMessage(fault)
            ELSE IF stage = "merge" THEN merged.exc
            ELSE IF stage = "collection" /\ ~llm_branch THEN UnboundLocalMessage
            ELSE NoExc
    IN IF evidence_items = <<>>
       THEN [called |-> TRUE, request |-> req, stages |-> <<>>, raised |-> NoExc,
             relationships |-> <<>>, scored_relationships |-> <<>>,
             filtered_relationships |-> <<>>, grouped |-> <<>>,
             llm_relationships |-> <<>>, llm_tracker |-> <<>>, llm_charged |-> 0,
             response |-> no_evidence_response]
       ELSE RunRecord(req, order, [i \in 1..Len(order) |-> raises(order[i])],
                      relationships, scored_relationships, filtered_relationships,
                      grouped, enhancement,
                      success_response(evidence_items, work_stories, merged.val,
                                       insights))

(***************************************************************************)
(* Services and the usage file                                             *)
(* A service is [pc, tracker, calls, op, semantic, edge_cases,             *)
(* relationships, iterations]: pc is "absent" before the service is        *)
(* created, "idle" between calls and "llm_tier" while a call is in tier    *)
(* 3's loop; calls counts the calls it received.  The last call that ended *)
(* is kept in the variable call.                                           *)
(***************************************************************************)
StartClock == [year |-> 1, month |-> 11]

Service(pc, tracker) ==
    [pc |-> pc, tracker |-> tracker, calls |-> 0, op |-> "none", semantic |-> <<>>,
     edge_cases |-> <<>>, relationships |-> <<>>, iterations |-> <<>>]

AbsentService == Service("absent", CostTracker(LLM_MONTHLY_BUDGET, 0))

\* create_llm_correlation_service(): the tracker loads the file, then gets
\* the configured budget
create_llm_correlation_service(file, now) ==
    Service("idle", CostTracker(LLM_MONTHLY_BUDGET, load_usage(file, now)))

UsageFile(usage, last_update) ==
    <<[current_month_usage |-> usage, last_update |-> last_update]>>

\* the cost the file records for the calendar month of now
SpentInMonth(file, now) ==
    IF file # <<>> /\ file[1].last_update = now
    THEN file[1].current_month_usage ELSE 0

\* the file after a call that recorded a cost (every record_usage saves)
FileAfter(file, tracker, charged, now) ==
    IF charged > 0 THEN save_usage(tracker, now) ELSE file

(***************************************************************************)
(* The engine under its callers                                            *)
(***************************************************************************)
Thresholds == {Pct(30), Pct(60), Pct(90)}
DefaultThreshold == Pct(30)
DefaultMaxWorkStories == 50
DefaultMinEvidence == 2

Components == {"linker", "scorer", "grouper", "timeline_analyzer", "technology_detector"}

CorrelationRequest(evidence_items, min_evidence_per_story, max_work_stories, options) ==
    [evidence_items |-> evidence_items,
     confidence_threshold |-> DefaultThreshold,
     max_work_stories |-> max_work_stories,
     min_evidence_per_story |-> min_evidence_per_story,
     analyze_work_patterns |-> options,
     detect_technology_stack |-> options,
     generate_insights |-> options]

\* evidence_items is None, [] or a list of at most MaxItems items
Requests ==
    {CorrelationRequest(e, m, x, o) :
        e \in {<<>>} \cup {<<ids>> : ids \in EvidenceLists},
        m \in 1..MaxMinEvidence,
        x \in {1, DefaultMaxWorkStories},
        o \in BOOLEAN}

NoRun ==
    [called |-> FALSE, request |-> <<>>, stages |-> <<>>, raised |-> NoExc,
     relationships |-> <<>>, scored_relationships |-> <<>>,
     filtered_relationships |-> <<>>, grouped |-> <<>>, llm_relationships |-> <<>>,
     llm_tracker |-> <<>>, llm_charged |-> 0,
     response |-> <<>>]

NoCall == [op |-> "none", done |-> FALSE, args |-> <<>>, result |-> <<>>]

\* the engine after __init__: built with enable_llm=False, or with
\* enable_llm=True and a service factory that returned None or a service
Init ==
    /\ \E engine \in {<<FALSE, "none">>, <<TRUE, "none">>, <<TRUE, "service">>} :
           /\ enable_llm = engine[1]
           /\ llm_service = engine[2]
    /\ request \in Requests
    /\ fault \in {"none"} \cup Components
    /\ fault # "none" => /\ request.min_evidence_per_story = DefaultMinEvidence
                         /\ request.max_work_stories = DefaultMaxWorkStories
    /\ run = NoRun
    /\ prev = NoRun
    /\ call = NoCall
    /\ clock = StartClock
    /\ usage_file \in {<<>>} \cup
           (IF llm_service = "none" THEN {}
            ELSE {UsageFile(LLM_MONTHLY_BUDGET - 30, StartClock)})
    /\ services = IF llm_service = "none" THEN <<>>
                  ELSE <<create_llm_correlation_service(usage_file, clock)>>
    /\ spent = SpentInMonth(usage_file, clock)

\* a caller submits the request with threshold t and gets the response
Correlate(t) ==
    /\ request' = [request EXCEPT !.confidence_threshold = t]
    /\ \E enhancement \in {_step_7_llm_enhancement(
                                ItemsOf(IF request.evidence_items = <<>> THEN <<>>
                                        ELSE request.evidence_items[1]))} :
           run' = correlate_evidence(request', enhancement)
    /\ prev' = run
    /\ services' = IF run'.llm_tracker = <<>> THEN services
                   ELSE [services EXCEPT ![EngineService].tracker = run'.llm_tracker[1]]
    /\ usage_file' = IF run'.llm_tracker = <<>> THEN usage_file
                     ELSE FileAfter(usage_file, run'.llm_tracker[1],
                                    run'.llm_charged, clock)
    /\ spent' = spent + run'.llm_charged
    /\ UNCHANGED <<enable_llm, llm_service, fault, call, clock>>

Next == \E t \in Thresholds : Correlate(t)

Spec == Init /\ [][Next]_vars

(***************************************************************************)
(* The grouper and the merge called directly                               *)
(***************************************************************************)
IdleRequest == CorrelationRequest(<<>>, DefaultMinEvidence, DefaultMaxWorkStories, TRUE)

\* the sequences of at most n distinct elements of S
RECURSIVE DistinctSeqs(_, _)
DistinctSeqs(S, n) ==
    IF n = 0 THEN {<<>>}
    ELSE LET shorter == DistinctSeqs(S, n - 1)
         IN shorter \cup UNION {{Append(q, x) : x \in S \ Range(q)} : q \in shorter}

\* the evidence a direct grouper call receives: jira_2 is never in it
GrouperPool == {"gitlab_1", "jira_1", "gitlab_2", "gitlab_3", "gitlab_4"}

GrouperEvidenceLists ==
    {SubSeqOf(S) : S \in {T \in SUBSET GrouperPool : Cardinality(T) <= MaxItems}}

\* the relationships a direct grouper call receives: two between items of
\* the pool, one to jira_2, one below the grouping confidence
GrouperRelationships ==
    {EvidenceRelationship("gitlab_1", "jira_1", SOLVES, Pct(90), ISSUE_KEY, NoMetadata),
     EvidenceRelationship("gitlab_2", "jira_1", RELATED_TO, Pct(90), BRANCH_NAME, NoMetadata),
     EvidenceRelationship("gitlab_1", "jira_2", REFERENCES, Pct(90), ISSUE_KEY, NoMetadata),
     EvidenceRelationship("gitlab_3", "gitlab_4", RELATED_TO, Pct(40), MANUAL, NoMetadata)}

InitGrouper ==
    /\ enable_llm = FALSE
    /\ llm_service = "none"
    /\ request = IdleRequest
    /\ fault = "none"
    /\ run = NoRun
    /\ prev = NoRun
    /\ clock = StartClock
    /\ usage_file = <<>>
    /\ services = <<>>
    /\ spent = 0
    /\ \E e \in GrouperEvidenceLists, r \in DistinctSeqs(GrouperRelationships, MaxRels),
          m \in 1..MaxGroupMin, x \in {1, DefaultMaxWorkStories} :
           call = [op |-> "create_work_stories", done |-> FALSE,
                   args |-> [evidence_items |-> e, relationships |-> r,
                             min_evidence_per_story |-> m, max_work_stories |-> x],
                   result |-> <<>>]

CreateWorkStories ==
    /\ call.op = "create_work_stories"
    /\ ~call.done
    /\ call' = [call EXCEPT
                   !.done = TRUE,
                   !.result = create_work_stories(ItemsOf(call.args.evidence_items),
                                                  call.args.relationships,
                                                  call.args.min_evidence_per_story,
                                                  call.args.max_work_stories)]
    /\ UNCHANGED <<enable_llm, llm_service, request, fault, run, prev, ledger>>

NextGrouper == CreateWorkStories

SpecGrouper == InitGrouper /\ [][NextGrouper]_vars

\* rule-based relationships and relationships of the matcher, some on the
\* same unordered pair
ExistingRelationships ==
    {EvidenceRelationship("gitlab_1", "jira_1", SOLVES, Pct(90), ISSUE_KEY, NoMetadata),
     EvidenceRelationship("gitlab_2", "jira_2", RELATED_TO, Pct(50), CONTENT_ANALYSIS, NoMetadata),
     EvidenceRelationship("gitlab_4", "jira_2", RELATED_TO, Pct(80), BRANCH_NAME, NoMetadata)}

MatcherRelationships ==
    {EvidenceRelationship("jira_1", "gitlab_1", SEMANTIC_SIMILARITY, Pct(95), LLM_SEMANTIC, NoMetadata),
     EvidenceRelationship("gitlab_2", "jira_2", SEMANTIC_SIMILARITY, Pct(75), LLM_SEMANTIC, NoMetadata),
     EvidenceRelationship("gitlab_3", "jira_1", SEMANTIC_SIMILARITY, Pct(70), LLM_SEMANTIC, NoMetadata)}

InitMerge ==
    /\ enable_llm = TRUE
    /\ llm_service = "service"
    /\ request = IdleRequest
    /\ fault = "none"
    /\ run = NoRun
    /\ prev = NoRun
    /\ clock = StartClock
    /\ usage_file = <<>>
    /\ services = <<>>
    /\ spent = 0
    /\ \E e \in DistinctSeqs(ExistingRelationships, MaxRels),
          l \in DistinctSeqs(MatcherRelationships, MaxRels) :
           call = [op |-> "_merge_relationships", done |-> FALSE,
                   args |-> [existing_relationships |-> e, llm_relationships |-> l],
                   result |-> <<>>]

MergeRelationships ==
    /\ call.op = "_merge_relationships"
    /\ ~call.done
    /\ call' = [call EXCEPT
                   !.done = TRUE,
                   !.result = _merge_relationships(call.args.existing_relationships,
                                                   call.args.llm_relationships)]
    /\ UNCHANGED <<enable_llm, llm_service, request, fault, run, prev, ledger>>

NextMerge == MergeRelationships

SpecMerge == InitMerge /\ [][NextMerge]_vars

(***************************************************************************)
(* The matcher called directly: two services that share the usage file     *)
(* (SpecMatcher), and one service under a clock that advances (SpecLedger) *)
(***************************************************************************)
\* the evidence of a matcher call, as objects of either class
MatcherLists ==
    {<<"gitlab_1", "jira_1">>, <<"gitlab_2", "jira_2", "gitlab_3">>}

Classes == {"UnifiedEvidenceItem", "EvidenceItem"}

ObjectsOf(ids, class) ==
    [i \in 1..Len(ids) |->
        IF class = "EvidenceItem" THEN EvidenceItem(ids[i])
        ELSE UnifiedEvidenceItem(ids[i])]

\* the file a service finds: none, or one written in this month, in the
\* month before, or in this month of the year before
EarlierClocks ==
    {[year |-> StartClock.year, month |-> StartClock.month - 1],
     [year |-> StartClock.year - 1, month |-> StartClock.month]}

FileUsages == {LLM_MONTHLY_BUDGET - 50, LLM_MONTHLY_BUDGET - 30}

InitLedger(ids, stamps) ==
    /\ enable_llm = TRUE
    /\ llm_service = "service"
    /\ request = IdleRequest
    /\ fault = "none"
    /\ run = NoRun
    /\ prev = NoRun
    /\ call = NoCall
    /\ clock = StartClock
    /\ usage_file \in {<<>>} \cup {UsageFile(u, t) : u \in FileUsages, t \in stamps}
    /\ services = [s \in ids |-> AbsentService]
    /\ spent = SpentInMonth(usage_file, clock)

\* the service is idle again
Idle(service) ==
    [service EXCEPT !.pc = "idle", !.op = "none", !.semantic = <<>>,
                    !.edge_cases = <<>>, !.relationships = <<>>,
                    !.iterations = <<>>]

\* the call of service s that ended, with what it raised or returned, tier
\* 3's iterations and the tracker it left
Ended(s, op, exc, val, iterations, tracker) ==
    [op |-> op, done |-> TRUE, args |-> <<s>>,
     result |-> [exc |-> exc, val |-> val, iterations |-> iterations,
                 tracker |-> tracker]]

\* a process starts and creates its service
CreateService(s) ==
    /\ services[s].pc = "absent"
    /\ services' = [services EXCEPT ![s] =
                        create_llm_correlation_service(usage_file, clock)]
    /\ UNCHANGED <<enable_llm, llm_service, request, fault, run, prev, call,
                   clock, usage_file, spent>>

\* correlate_evidence_with_llm up to tier 3's loop
CorrelateEvidenceWithLLM(s, evidence_items, embedding) ==
    LET first == semantic_tiers(evidence_items, services[s].tracker, embedding)
        service == [services[s] EXCEPT !.tracker = first.tracker, !.calls = @ + 1]
    IN /\ services[s].pc = "idle"
       /\ services[s].calls < MaxCalls
       /\ services' = [services EXCEPT ![s] =
              IF first.exc # NoExc \/ first.edge_cases = <<>>
              THEN Idle(service)
              ELSE [service EXCEPT !.pc = "llm_tier",
                                   !.op = "correlate_evidence_with_llm",
                                   !.semantic = first.val,
                                   !.edge_cases = first.edge_cases]]
       /\ call' = IF first.exc # NoExc \/ first.edge_cases = <<>>
                  THEN Ended(s, "correlate_evidence_with_llm", first.exc,
                             first.val, <<>>, first.tracker)
                  ELSE call
       /\ usage_file' = FileAfter(usage_file, first.tracker, first.charged, clock)
       /\ spent' = spent + first.charged
       /\ UNCHANGED <<enable_llm, llm_service, request, fault, run, prev, clock>>

\* a direct call of tier 2
CorrelateWithEmbeddings(s, evidence_pairs, embedding) ==
    LET tier == _correlate_with_embeddings(evidence_pairs, services[s].tracker,
                                           embedding)
    IN /\ services[s].pc = "idle"
       /\ services[s].calls < MaxCalls
       /\ evidence_pairs # <<>>
       /\ services' = [services EXCEPT ![s].tracker = tier.tracker,
                                       ![s].calls = @ + 1]
       /\ call' = Ended(s, "_correlate_with_embeddings", tier.exc, tier.val,
                        <<>>, tier.tracker)
       /\ usage_file' = FileAfter(usage_file, tier.tracker, tier.charged, clock)
       /\ spent' = spent + tier.charged
       /\ UNCHANGED <<enable_llm, llm_service, request, fault, run, prev, clock>>

\* a direct call of tier 3 enters its loop
CorrelateEdgeCasesWithLLM(s, edge_cases) ==
    /\ services[s].pc = "idle"
    /\ services[s].calls < MaxCalls
    /\ edge_cases # <<>>
    /\ services' = [services EXCEPT ![s] =
           [services[s] EXCEPT !.pc = "llm_tier", !.calls = @ + 1,
                               !.op = "_correlate_edge_cases_with_llm",
                               !.edge_cases = edge_cases]]
    /\ UNCHANGED <<enable_llm, llm_service, request, fault, run, prev, call,
                   clock, usage_file, spent>>

\* one iteration of tier 3's loop; after the last one the call returns
LLMIteration(s, verdict) ==
    LET before == [edge_cases |-> services[s].edge_cases,
                   relationships |-> services[s].relationships,
                   tracker |-> services[s].tracker,
                   charged |-> 0,
                   iterations |-> services[s].iterations]
        loop == llm_iteration(before, verdict)
        service == [services[s] EXCEPT !.tracker = loop.tracker,
                                       !.edge_cases = loop.edge_cases,
                                       !.relationships = loop.relationships,
                                       !.iterations = loop.iterations]
    IN /\ services[s].pc = "llm_tier"
       /\ services' = [services EXCEPT ![s] =
              IF loop.edge_cases = <<>> THEN Idle(service) ELSE service]
       /\ call' = IF loop.edge_cases = <<>>
                  THEN Ended(s, services[s].op, NoExc,
                             services[s].semantic \o loop.relationships,
                             loop.iterations, loop.tracker)
                  ELSE call
       /\ usage_file' = FileAfter(usage_file, loop.tracker, loop.charged, clock)
       /\ spent' = spent + loop.charged
       /\ UNCHANGED <<enable_llm, llm_service, request, fault, run, prev, clock>>

\* the calendar month ends
NextMonth ==
    /\ clock.month < 12
    /\ clock' = [clock EXCEPT !.month = @ + 1]
    /\ spent' = 0
    /\ UNCHANGED <<enable_llm, llm_service, request, fault, run, prev, call,
                   usage_file, services>>

\* twelve calendar months pass
NextYear ==
    /\ clock.year < StartClock.year + MaxYears
    /\ clock' = [clock EXCEPT !.year = @ + 1]
    /\ spent' = 0
    /\ UNCHANGED <<enable_llm, llm_service, request, fault, run, prev, call,
                   usage_file, services>>

\* the inputs of a direct call: the evidence as objects of a class, and
\* what the embedding provider answers
MatcherInputs ==
    {[evidence_items |-> ObjectsOf(ids, class), embedding |-> embedding] :
        ids \in MatcherLists, class \in Classes, embedding \in Embeddings}

NextMatcher ==
    \/ \E s \in DOMAIN services : CreateService(s)
    \/ \E s \in DOMAIN services, input \in MatcherInputs :
           CorrelateEvidenceWithLLM(s, input.evidence_items, input.embedding)
    \/ \E s \in DOMAIN services, input \in MatcherInputs :
           CorrelateWithEmbeddings(s, PairsOf(input.evidence_items), input.embedding)
    \/ \E s \in DOMAIN services, input \in MatcherInputs :
           CorrelateEdgeCasesWithLLM(s, PairsOf(input.evidence_items))
    \/ \E s \in DOMAIN services, verdict \in Verdicts : LLMIteration(s, verdict)

SpecMatcher == InitLedger({1, 2}, {StartClock}) /\ [][NextMatcher]_vars

NextLedger == NextMatcher \/ NextMonth \/ NextYear

SpecLedger == InitLedger({1}, {StartClock} \cup EarlierClocks) /\ [][NextLedger]_vars

(***************************************************************************)
(* The scoring step of the engine called directly, on the evidence lists   *)
(* and relationship lists of the direct grouper calls                      *)
(***************************************************************************)
InitScoring ==
    /\ enable_llm = FALSE
    /\ llm_service = "none"
    /\ request = IdleRequest
    /\ fault = "none"
    /\ run = NoRun
    /\ prev = NoRun
    /\ clock = StartClock
    /\ usage_file = <<>>
    /\ services = <<>>
    /\ spent = 0
    /\ \E e \in GrouperEvidenceLists, r \in DistinctSeqs(GrouperRelationships, MaxRels) :
           call = [op |-> "_score_relationships", done |-> FALSE,
                   args |-> [relationships |-> r, evidence_items |-> e],
                   result |-> <<>>]

\* the call returns the scored list; nothing in it raises
ScoreRelationships ==
    /\ call.op = "_score_relationships"
    /\ ~call.done
    /\ call' = [call EXCEPT
                   !.done = TRUE,
                   !.result = Ok(_score_relationships(call.args.relationships,
                                    ItemsOf(call.args.evidence_items)))]
    /\ UNCHANGED <<enable_llm, llm_service, request, fault, run, prev, ledger>>

NextScoring == ScoreRelationships

SpecScoring == InitScoring /\ [][NextScoring]_vars

(***************************************************************************)
(* Timeline analyzer (algorithms/timeline_analyzer.py), called directly    *)
(* An evidence_date is a number of ticks of half a day; a timedelta is a   *)
(* difference of ticks and timedelta.days its whole days.                  *)
(***************************************************************************)
TicksPerDay == 2

\* timedelta.days
days(delta) == delta \div TicksPerDay

TimelineItem(id, platform, evidence_date) ==
    [id |-> id, platform |-> platform, evidence_date |-> evidence_date]

RECURSIVE sorted_by_date(_)
\* sorted(items, key=lambda x: x.evidence_date): ascending and stable
sorted_by_date(items) ==
    IF items = <<>> THEN <<>>
    ELSE LET front == sorted_by_date(SubSeq(items, 1, Len(items) - 1))
             x == items[Len(items)]
             before == SelectSeq(front, LAMBDA i : i.evidence_date <= x.evidence_date)
             after == SelectSeq(front, LAMBDA i : i.evidence_date > x.evidence_date)
         IN before \o <<x>> \o after

\* the number of items at most 1 day (timedelta.days) after their
\* predecessor
rapid_activities(sorted_items) ==
    Cardinality({i \in 2..Len(sorted_items) :
                    days(sorted_items[i].evidence_date
                         - sorted_items[i - 1].evidence_date) <= 1})

\* rapid_activities >= len(sorted_items) * 0.5
half_of_the_items(sorted_items) == 2 * rapid_activities(sorted_items) >= Len(sorted_items)

_detect_sequence_patterns(sorted_items) ==
    IF Len(sorted_items) < 2 THEN <<>>
    ELSE LET jira_first == \E i \in 1..2 : sorted_items[i].platform = JIRA
             gitlab_later == \E i \in 2..Len(sorted_items) :
                                 sorted_items[i].platform = GITLAB
             total_duration == days(sorted_items[Len(sorted_items)].evidence_date
                                    - sorted_items[1].evidence_date)
         IN (IF jira_first /\ gitlab_later
             THEN <<"ticket_driven_development">> ELSE <<>>)
            \o (IF half_of_the_items(sorted_items) THEN <<"rapid_iteration">> ELSE <<>>)
            \o (IF total_duration > 30 THEN <<"long_development_cycle">>
                ELSE IF total_duration <= 3 THEN <<"quick_turnaround">>
                ELSE <<>>)

_analyze_work_sequence(items) ==
    LET sorted_items == sorted_by_date(items)
    IN [sequence |-> [i \in 1..Len(sorted_items) |->
                         [date |-> sorted_items[i].evidence_date,
                          platform |-> sorted_items[i].platform]],
        patterns |-> _detect_sequence_patterns(sorted_items),
        duration_days |-> IF Len(sorted_items) > 1
                          THEN days(sorted_items[Len(sorted_items)].evidence_date
                                    - sorted_items[1].evidence_date)
                          ELSE 0]

\* the dict appended for a closed cluster
Sprint(current_sprint_items) ==
    [start_date |-> current_sprint_items[1].evidence_date,
     end_date |-> current_sprint_items[Len(current_sprint_items)].evidence_date,
     item_count |-> Len(current_sprint_items),
     duration_days |-> days(current_sprint_items[Len(current_sprint_items)].evidence_date
                            - current_sprint_items[1].evidence_date)]

RECURSIVE sprint_loop_closing_at_every_gap(_, _, _)
\* a variant that closes the cluster at every gap of more than 3 days
sprint_loop_closing_at_every_gap(sorted_items, current_sprint_items, sprints) ==
    IF sorted_items = <<>>
    THEN [sprints |-> sprints, current_sprint_items |-> current_sprint_items]
    ELSE LET item == Head(sorted_items)
             last_date == current_sprint_items[Len(current_sprint_items)].evidence_date
         IN IF current_sprint_items = <<>>
            THEN sprint_loop_closing_at_every_gap(Tail(sorted_items), <<item>>, sprints)
            ELSE IF days(item.evidence_date - last_date) > 3
            THEN sprint_loop_closing_at_every_gap(Tail(sorted_items), <<item>>,
                     Append(sprints, Sprint(current_sprint_items)))
            ELSE sprint_loop_closing_at_every_gap(Tail(sorted_items),
                     Append(current_sprint_items, item), sprints)

RECURSIVE sprint_loop(_, _, _)
\* the loop over the sorted items: the sprints closed and the running
\* cluster after the last item
sprint_loop(sorted_items, current_sprint_items, sprints) ==
    IF sorted_items = <<>>
    THEN [sprints |-> sprints, current_sprint_items |-> current_sprint_items]
    ELSE LET item == Head(sorted_items)
             last_date == current_sprint_items[Len(current_sprint_items)].evidence_date
             gap_days == days(item.evidence_date - last_date)
         IN IF current_sprint_items = <<>>
            THEN sprint_loop(Tail(sorted_items), <<item>>, sprints)
            ELSE IF gap_days > 3 /\ Len(current_sprint_items) >= 3
            THEN sprint_loop(Tail(sorted_items), <<item>>,
                             Append(sprints, Sprint(current_sprint_items)))
            ELSE sprint_loop(Tail(sorted_items),
                             Append(current_sprint_items, item), sprints)

detect_sprint_boundaries(evidence_items) ==
    IF evidence_items = <<>> THEN <<>>
    ELSE LET loop == sprint_loop(sorted_by_date(evidence_items), <<>>, <<>>)
         IN IF Len(loop.current_sprint_items) >= 3
            THEN Append(loop.sprints, Sprint(loop.current_sprint_items))
            ELSE loop.sprints

\* The evidence of a direct call: at most MaxTimelineItems items, the first
\* at tick 0 and each of the others 0, 1, 1.5, 3.5 or 4 days after the one
\* before; all from GitLab, or the first from JIRA; handed over in
\* chronological order or in the reverse order.
MaxTimelineItems == 6

Gaps == {0, 2, 3, 7, 8}

RECURSIVE DateAt(_, _)
DateAt(gaps, i) == IF i = 1 THEN 0 ELSE DateAt(gaps, i - 1) + gaps[i - 1]

\* the list of n items with the given gaps, the first of platform first
TimelineList(n, gaps, first) ==
    [i \in 1..n |-> TimelineItem(i, IF first = JIRA /\ i = 1 THEN JIRA ELSE GITLAB,
                                 DateAt(gaps, i))]

InitTimeline ==
    /\ enable_llm = FALSE
    /\ llm_service = "none"
    /\ request = IdleRequest
    /\ fault = "none"
    /\ run = NoRun
    /\ prev = NoRun
    /\ clock = StartClock
    /\ usage_file = <<>>
    /\ services = <<>>
    /\ spent = 0
    /\ \E n \in 0..MaxTimelineItems, first \in {JIRA, GITLAB}, reversed \in BOOLEAN,
          op \in {"_analyze_work_sequence", "detect_sprint_boundaries"} :
           \E gaps \in [1..(n - 1) -> Gaps] :
               call = [op |-> op, done |-> FALSE,
                       args |-> [evidence_items |->
                                    IF reversed
                                    THEN Reverse(TimelineList(n, gaps, first))
                                    ELSE TimelineList(n, gaps, first)],
                       result |-> <<>>]

AnalyzeWorkSequence ==
    /\ call.op = "_analyze_work_sequence"
    /\ ~call.done
    /\ call' = [call EXCEPT
                   !.done = TRUE,
                   !.result = _analyze_work_sequence(call.args.evidence_items)]
    /\ UNCHANGED <<enable_llm, llm_service, request, fault, run, prev, ledger>>

DetectSprintBoundaries ==
    /\ call.op = "detect_sprint_boundaries"
    /\ ~call.done
    /\ call' = [call EXCEPT
                   !.done = TRUE,
                   !.result = detect_sprint_boundaries(call.args.evidence_items)]
    /\ UNCHANGED <<enable_llm, llm_service, request, fault, run, prev, ledger>>

NextTimeline == AnalyzeWorkSequence \/ DetectSprintBoundaries

SpecTimeline == InitTimeline /\ [][NextTimeline]_vars

(***************************************************************************)
(* Properties                                                              *)
(***************************************************************************)
\* the evidence ids of a request (None counts as the empty list)
EvidenceOf(req) == IF req.evidence_items = <<>> THEN <<>> ELSE req.evidence_items[1]

MatcherAvailable == enable_llm /\ llm_service # "none"

\* the unordered endpoint pair of a relationship
PairOf(rel) == {rel.primary_evidence_id, rel.related_evidence_id}

\* the threshold-filtered rule-based relationships of a request
RuleBasedRelationships(req) ==
    filter_relationships(
        _score_relationships(_detect_relationships(ItemsOf(EvidenceOf(req))),
                             ItemsOf(EvidenceOf(req))),
        req.confidence_threshold)

\* C1: without the matcher (disabled, or no service), a call on a non-empty
\* evidence list in which no component fails returns success=true, no
\* error, and exactly the threshold-filtered rule-based relationships.
C1_RuleBasedPipelineWithoutMatcher ==
    (/\ run.called
     /\ ~MatcherAvailable
     /\ fault = "none"
     /\ EvidenceOf(run.request) # <<>>)
    => /\ run.response.success
       /\ run.response.errors = <<>>
       /\ run.response.correlated_collection # <<>>
       /\ run.response.correlated_collection[1].relationships
              = RuleBasedRelationships(run.request)

\* C2: a call in which a pipeline step raised returns a response (nothing
\* reaches the caller) with success=false, the exception's message as the
\* only error, no relationship, no story, and items_processed = the number
\* of input items.
C2_ExceptionBecomesFailureResponse ==
    (run.called /\ run.raised # NoExc)
    => /\ run.response.success = FALSE
       /\ run.response.errors = <<"Correlation engine error: " \o run.raised>>
       /\ run.response.relationships_detected = 0
       /\ run.response.work_stories_created = 0
       /\ run.response.items_processed = Len(EvidenceOf(run.request))
       /\ run.response.correlated_collection = <<>>

\* a component raised in the grouping step of a call on two or more items
C2_Witness ==
    /\ run.called
    /\ fault = "grouper"
    /\ run.stages = <<"detect", "score", "filter", "group">>
    /\ run.raised = FaultMessage("grouper")
    /\ Len(EvidenceOf(run.request)) >= 2

C4_CoverageMonotonicity ==
    (/\ prev.called
     /\ run.called
     /\ prev.request.confidence_threshold <= run.request.confidence_threshold)
    => /\ prev.response.relationships_detected >= run.response.relationships_detected
       /\ prev.response.work_stories_created >= run.response.work_stories_created

\* the stories of a finished direct call of the grouper
GrouperStories == IF call.op = "create_work_stories" /\ call.done THEN call.result ELSE <<>>

\* the items of a direct grouper call outside every component of at least
\* min_evidence_per_story nodes, clustered greedily
OrphanClusters ==
    LET items == ItemsOf(call.args.evidence_items)
        high == SelectSeq(call.args.relationships,
                    LAMBDA rel : rel.confidence_score >= min_confidence_for_grouping)
        components == _find_connected_components(_build_relationship_graph(items, high))
        big == {components[k] : k \in {j \in 1..Len(components) :
                   Cardinality(components[j]) >= call.args.min_evidence_per_story}}
    IN _group_orphaned_items(
           SelectSeq(items, LAMBDA item : item.id \notin UNION big))

\* C5: the items outside every component of at least min_evidence_per_story
\* nodes are clustered by platform and 7-day distance to the seed, and each
\* cluster of at least min_evidence_per_story items is a story without
\* relationships; three GitLab items one day apart without relationships
\* are one story for a minimum of 2 or 3 and no story for a minimum of 4.
C5_OrphanClustering ==
    (/\ call.op = "create_work_stories"
     /\ call.done
     /\ call.args.max_work_stories = DefaultMaxWorkStories)
    => /\ \A c \in 1..Len(OrphanClusters) :
              Len(OrphanClusters[c]) >= call.args.min_evidence_per_story
              => \E s \in 1..Len(call.result) :
                     /\ call.result[s].evidence_items = Range(IdsOf(OrphanClusters[c]))
                     /\ call.result[s].relationships = <<>>
       /\ (/\ call.args.evidence_items = <<"gitlab_2", "gitlab_3", "gitlab_4">>
           /\ call.args.relationships = <<>>)
          => /\ call.args.min_evidence_per_story \in {2, 3}
                => /\ Len(call.result) = 1
                   /\ call.result[1].evidence_items = {"gitlab_2", "gitlab_3", "gitlab_4"}
                   /\ call.result[1].relationships = <<>>
             /\ call.args.min_evidence_per_story = 4 => call.result = <<>>

\* the stories and relationships of the collection of the last response
ResponseStories ==
    IF run.called /\ run.response.correlated_collection # <<>>
    THEN run.response.correlated_collection[1].work_stories ELSE <<>>

ResponseRelationships ==
    IF run.called /\ run.response.correlated_collection # <<>>
    THEN run.response.correlated_collection[1].relationships ELSE <<>>

ConsistentStories(stories, evidence_ids) ==
    \A s \in 1..Len(stories) :
        /\ stories[s].evidence_items \subseteq Range(evidence_ids)
        /\ \A r \in 1..Len(stories[s].relationships) :
               PairOf(stories[s].relationships[r]) \subseteq stories[s].evidence_items

C7_StoriesHaveMinimumEvidence ==
    \A s \in 1..Len(GrouperStories) :
        Cardinality(GrouperStories[s].evidence_items)
            >= call.args.min_evidence_per_story

C9_MergePolicy ==
    (call.op = "_merge_relationships" /\ call.done)
    => LET existing == call.args.existing_relationships
           llm == call.args.llm_relationships
           fresh == SelectSeq(llm, LAMBDA l :
                        \A i \in 1..Len(existing) : PairOf(existing[i]) # PairOf(l))
       IN /\ call.result.exc = NoExc
          /\ Len(call.result.val) = Len(existing) + Len(fresh)
          /\ \A k \in 1..Len(fresh) : call.result.val[Len(existing) + k] = fresh[k]
          /\ \A i \in 1..Len(existing) :
                 LET same == {j \in 1..Len(llm) : PairOf(llm[j]) = PairOf(existing[i])}
                 IN IF same = {} THEN call.result.val[i] = existing[i]
                    ELSE \E j \in same :
                           call.result.val[i] =
                               [existing[i] EXCEPT
                                   !.confidence_score =
                                       Max2(existing[i].confidence_score,
                                            llm[j].confidence_score),
                                   !.metadata.llm_validation = TRUE,
                                   !.metadata.llm_confidence =
                                       <<llm[j].confidence_score>>]

NoDuplicatePairs(relationships) ==
    \A i, j \in 1..Len(relationships) :
        i # j => PairOf(relationships[i]) # PairOf(relationships[j])

IterationsOf(s) ==
    IF services[s].pc = "llm_tier" THEN services[s].iterations
    ELSE IF call.done /\ call.args = <<s>> /\ "iterations" \in DOMAIN call.result
    THEN call.result.iterations
    ELSE <<>>

Unaffordable(usage) == usage + llm_cost_per_request > LLM_MONTHLY_BUDGET

\* C11: can_afford_llm_call() is true exactly when current_month_usage +
\* llm_cost_per_request <= monthly_budget, and an iteration of the LLM tier
\* that starts when it is false issues no adjudication call, records no
\* cost and is the last iteration of the run (no later candidate is
\* visited): the usage the call leaves is the usage at that iteration.
C11_BudgetEnforcement ==
    /\ \A s \in DOMAIN services :
          can_afford_llm_call(services[s].tracker)
              <=> ~Unaffordable(services[s].tracker.current_month_usage)
    /\ \A s \in DOMAIN services :
          LET its == IterationsOf(s)
          IN \A i \in 1..Len(its) :
                /\ Unaffordable(its[i].usage) <=> its[i].outcome = "break"
                /\ Unaffordable(its[i].usage) =>
                      /\ i = Len(its)
                      /\ services[s].pc = "idle"
                      /\ services[s].tracker.current_month_usage = its[i].usage
                      /\ call.result.tracker.current_month_usage = its[i].usage

\* a call of the LLM tier that issued a call for its first candidate, found
\* the budget exhausted at the second and left the third unvisited
C11_Witness ==
    /\ call.done
    /\ call.op = "correlate_evidence_with_llm"
    /\ Len(call.result.iterations) = 2
    /\ call.result.iterations[1].outcome = "called"
    /\ call.result.iterations[2].outcome = "break"
    /\ Unaffordable(call.result.iterations[2].usage)

\* what the rule-based linker finds for each pair: its endpoints and
\* detection method
RuleBasedLinks(evidence_pairs) ==
    UNION {{<<rel.primary_evidence_id, rel.related_evidence_id, rel.detection_method>> :
               rel \in Range(detect_relationships(
                   SelectSeq(evidence_pairs[i], LAMBDA item : item.platform = GITLAB),
                   SelectSeq(evidence_pairs[i], LAMBDA item : item.platform = JIRA)))} :
           i \in 1..Len(evidence_pairs)}

\* C12: a call of the embedding tier whose projected cost does not fit the
\* remaining budget, or whose embedding step fails, raises nothing and
\* returns the relationships the rule-based linker finds for the pairs.
C12_EmbeddingTierFallback ==
    [][\A s \in DOMAIN services, input \in MatcherInputs :
          LET evidence_pairs == PairsOf(input.evidence_items)
          IN (/\ CorrelateWithEmbeddings(s, evidence_pairs, input.embedding)
              /\ \/ ~can_afford_embedding(services[s].tracker,
                                          estimated_tokens(evidence_pairs))
                 \/ input.embedding = "fails")
             => /\ call'.result.exc = NoExc
                /\ {<<rel.primary_evidence_id, rel.related_evidence_id,
                      rel.detection_method>> : rel \in Range(call'.result.val)}
                       = RuleBasedLinks(evidence_pairs)]_vars

\* C13: the usage a started service's affordability checks see never
\* exceeds what was spent in the current calendar month (year and month),
\* and is zero whenever the usage file was written in another month.
C13_LedgerMonthRollover ==
    \A s \in DOMAIN services :
        services[s].pc # "absent" =>
            /\ services[s].tracker.current_month_usage <= spent
            /\ (usage_file # <<>> /\ usage_file[1].last_update # clock)
                   => services[s].tracker.current_month_usage = 0

\* the evidence ids of each story
PartitionOf(work_stories) ==
    {work_stories[k].evidence_items : k \in 1..Len(work_stories)}

StageOrder ==
    <<"detect", "score", "filter", "group", "patterns", "technology", "llm",
      "merge", "insights", "collection">>

StageRank(stage) == CHOOSE i \in 1..Len(StageOrder) : StageOrder[i] = stage

\* C15: the stages a run enters are entered in the order linker, scorer,
\* threshold filter, grouper, timeline enrichment, technology enrichment,
\* matcher merge, insights aggregation, response, whichever optional
\* stages are switched off; insights are aggregated after the merge.
C15_PipelineOrder ==
    run.called =>
        \A i, j \in 1..Len(run.stages) :
            i < j => StageRank(run.stages[i]) < StageRank(run.stages[j])

\* every relationship a run scored, kept, grouped, got from the matcher or
\* returned
RunRelationships(r) ==
    Range(r.scored_relationships) \cup Range(r.filtered_relationships)
    \cup Range(r.llm_relationships)
    \cup UNION {Range(r.grouped[k].relationships) : k \in 1..Len(r.grouped)}
    \cup UNION {Range(r.response.correlated_collection[k].relationships) :
                   k \in 1..Len(r.response.correlated_collection)}

DetectedBeforeDeduplication(r) ==
    LET items == ItemsOf(EvidenceOf(r.request))
    IN undeduplicated_relationships(
           SelectSeq(items, LAMBDA item : item.platform = GITLAB),
           SelectSeq(items, LAMBDA item : item.platform = JIRA))

SamePair(rel1, rel2) ==
    /\ rel1.primary_evidence_id = rel2.primary_evidence_id
    /\ rel1.related_evidence_id = rel2.related_evidence_id

\* C18: for each (GitLab item, JIRA item) pair the strategies detected, the
\* linker returns exactly one relationship, the one of highest confidence;
\* a pair detected by issue key (0.9) and by branch name (0.7) is returned
\* once, with detection method ISSUE_KEY and confidence 0.9.
C18_DeduplicationKeepsHighest ==
    (run.called /\ run.relationships # <<>>) =>
        \A detected \in Range(DetectedBeforeDeduplication(run)) :
            /\ Cardinality({i \in 1..Len(run.relationships) :
                               SamePair(run.relationships[i], detected)}) = 1
            /\ \A rel \in Range(run.relationships) :
                  SamePair(rel, detected) =>
                      /\ rel \in Range(DetectedBeforeDeduplication(run))
                      /\ rel.confidence_score >= detected.confidence_score
                      /\ (detected.detection_method = ISSUE_KEY
                          /\ \E other \in Range(DetectedBeforeDeduplication(run)) :
                                /\ SamePair(other, detected)
                                /\ other.detection_method = BRANCH_NAME)
                         => /\ rel.detection_method = ISSUE_KEY
                            /\ rel.confidence_score = Pct(90)

\* a run in which the issue-key and the branch-name strategy detected the
\* same pair and the linker returned a relationship for it
C18_Witness ==
    /\ run.called
    /\ \E a, b \in Range(DetectedBeforeDeduplication(run)) :
          /\ SamePair(a, b)
          /\ a.detection_method = ISSUE_KEY
          /\ a.confidence_score = Pct(90)
          /\ b.detection_method = BRANCH_NAME
          /\ b.confidence_score = Pct(70)
          /\ \E rel \in Range(run.relationships) : SamePair(rel, a)

\* C19: with two services on one usage file and no month change, the file
\* holds all that was spent in the month (no recorded cost is lost), and
\* what was spent never exceeds the monthly budget.
C19_LedgerCriticalSection ==
    /\ usage_file # <<>> => usage_file[1].current_month_usage = spent
    /\ spent <= LLM_MONTHLY_BUDGET

RECURSIVE JoinedTo(_, _)
\* the ids joined to an id of S by a path of the relationships, taken as
\* undirected edges
JoinedTo(S, relationships) ==
    LET T == S \cup {rel.related_evidence_id :
                        rel \in {r \in Range(relationships) : r.primary_evidence_id \in S}}
               \cup {rel.primary_evidence_id :
                        rel \in {r \in Range(relationships) : r.related_evidence_id \in S}}
    IN IF T = S THEN S ELSE JoinedTo(T, relationships)

\* C20: in a direct grouper call, before truncation, two evidence items are
\* in the same component-derived story if and only if a path of
\* relationships of confidence >= 0.5 joins them and their component has at
\* least min_evidence_per_story evidence items.
C20_ConnectedComponents ==
    (call.op = "create_work_stories" /\ call.done) =>
        LET ids == Range(call.args.evidence_items)
            edges == SelectSeq(call.args.relationships,
                         LAMBDA rel : rel.confidence_score >= Pct(50))
            stories == component_stories(ItemsOf(call.args.evidence_items), edges,
                                         call.args.min_evidence_per_story)
        IN \A x, y \in ids :
              x # y =>
                  ((\E k \in 1..Len(stories) : {x, y} \subseteq stories[k].evidence_items)
                   <=> /\ y \in JoinedTo({x}, edges)
                       /\ Cardinality(JoinedTo({x}, edges) \cap ids)
                              >= call.args.min_evidence_per_story)

\* the relationships of a direct grouper call with both endpoints in the
\* evidence list
WithoutDanglingEdges ==
    SelectSeq(call.args.relationships,
              LAMBDA rel : PairOf(rel) \subseteq Range(call.args.evidence_items))

\* C21: in a direct grouper call an id that is only an endpoint of a
\* relationship is in no story and adds nothing to a component's size: the
\* stories hold evidence ids only, and they are the stories of the same
\* call without the relationships that have an endpoint outside the
\* evidence list.
C21_DanglingEdgesIgnored ==
    (call.op = "create_work_stories" /\ call.done) =>
        /\ \A s \in 1..Len(call.result) :
               call.result[s].evidence_items \subseteq Range(call.args.evidence_items)
        /\ call.result = create_work_stories(ItemsOf(call.args.evidence_items),
                                             WithoutDanglingEdges,
                                             call.args.min_evidence_per_story,
                                             call.args.max_work_stories)

\* the next candidate of service s reaches the provider: the budget admits
\* the call and the prompt can be built from both items
AdjudicationIssued(s) ==
    LET pair == Head(services[s].edge_cases)
    IN /\ services[s].tracker.current_month_usage + llm_cost_per_request
              <= services[s].tracker.monthly_budget
       /\ ClassOf(pair[1]) = "EvidenceItem"
       /\ ClassOf(pair[2]) = "EvidenceItem"

\* C22: an iteration of the LLM tier takes the next candidate off the
\* list for good, whatever the provider answers (the pair was in no earlier
\* iteration of the run and is in no later one); when the adjudication is
\* issued the instance's usage grows by exactly llm_cost_per_request for
\* every answer, accepted or not, and otherwise it does not change; and
\* when the candidate is unaffordable the run ends there with the
\* remaining candidates unvisited.
C22_LLMTierProtocol ==
    [][\A s \in DOMAIN services, verdict \in Verdicts :
          LLMIteration(s, verdict) =>
              LET pair == Head(services[s].edge_cases)
                  ids == <<pair[1].id, pair[2].id>>
                  usage == services[s].tracker.current_month_usage
              IN /\ \A i \in 1..Len(services[s].iterations) :
                        services[s].iterations[i].pair # ids
                 /\ \A i \in 1..Len(services'[s].edge_cases) :
                        services'[s].edge_cases[i] # pair
                 /\ Len(services'[s].edge_cases) < Len(services[s].edge_cases)
                 /\ services'[s].tracker.current_month_usage
                        = IF AdjudicationIssued(s)
                          THEN usage + llm_cost_per_request ELSE usage
                 /\ usage + llm_cost_per_request > LLM_MONTHLY_BUDGET
                        => /\ services'[s].pc = "idle"
                           /\ call'.done
                           /\ call'.result.tracker.current_month_usage = usage
                           /\ Len(call'.result.iterations)
                                  = Len(services[s].iterations) + 1]_vars

\* a direct call of the LLM tier ended: the provider was asked about the
\* first candidate, no relationship was accepted, the cost of the call was
\* recorded, and the second candidate was unaffordable
C22_Witness ==
    /\ call.done
    /\ call.op = "_correlate_edge_cases_with_llm"
    /\ call.result.val = <<>>
    /\ Len(call.result.iterations) = 2
    /\ call.result.iterations[1].outcome = "called"
    /\ call.result.iterations[2].usage
           = call.result.iterations[1].usage + llm_cost_per_request
    /\ call.result.iterations[2].outcome = "break"
    /\ call.result.tracker.current_month_usage = call.result.iterations[2].usage

\* the provider answers that are failures of the adjudication call: an
\* exception or a text without JSON object, and a confidence outside [0, 1]
FailedAnswers == {verdict \in Verdicts : verdict.kind = "error" \/ verdict.confidence > Q}

\* the pairs tier 2 of a matcher run on the items would embed
EmbeddedPairs(evidence_items) == _prefilter_evidence_pairs(evidence_items)

SortedItems == sorted_by_date(call.args.evidence_items)

\* the consecutive pairs of the sorted items at most 1 day apart
PairsWithinOneDay ==
    {i \in 2..Len(SortedItems) :
        SortedItems[i].evidence_date - SortedItems[i - 1].evidence_date
            <= TicksPerDay}

\* C24: the work sequence of a list of at least 2 items is tagged
\* "rapid_iteration" exactly when at least half of the consecutive pairs
\* of its items, sorted by date, are at most 1 day apart.
C24_RapidIteration ==
    (/\ call.op = "_analyze_work_sequence"
     /\ call.done
     /\ Len(call.args.evidence_items) >= 2)
    => ((\E k \in 1..Len(call.result.patterns) :
            call.result.patterns[k] = "rapid_iteration")
        <=> 2 * Cardinality(PairsWithinOneDay) >= Len(SortedItems) - 1)

\* the positions of the sorted items whose date lies within a sprint
ItemsWithin(sprint) ==
    {i \in 1..Len(SortedItems) :
        /\ sprint.start_date <= SortedItems[i].evidence_date
        /\ SortedItems[i].evidence_date <= sprint.end_date}

\* C25: the sprints detect_sprint_boundaries returns are clusters of at
\* least 3 of the input items each, in chronological order and disjoint;
\* a sprint ends only where the next item is more than 3 days later; the
\* first sprint starts with the earliest item and each next one with the
\* item after the sprint before it, so the items in no sprint are the
\* trailing ones, and they are at most 2.
C25_SprintBoundaries ==
    (call.op = "detect_sprint_boundaries" /\ call.done) =>
        LET sprints == call.result
            unassigned == (1..Len(SortedItems))
                              \ UNION {ItemsWithin(sprints[k]) : k \in 1..Len(sprints)}
        IN /\ \A k \in 1..Len(sprints) :
                  /\ sprints[k].item_count >= 3
                  /\ sprints[k].item_count = Cardinality(ItemsWithin(sprints[k]))
                  /\ sprints[k].start_date <= sprints[k].end_date
                  /\ ItemsWithin(sprints[k])
                         = (IF k = 1 THEN 1
                            ELSE 1 + Cardinality(UNION {ItemsWithin(sprints[j]) :
                                                           j \in 1..(k - 1)}))
                           .. (IF k = 1 THEN sprints[k].item_count
                               ELSE sprints[k].item_count
                                    + Cardinality(UNION {ItemsWithin(sprints[j]) :
                                                            j \in 1..(k - 1)}))
           /\ \A k \in 1..(Len(sprints) - 1) :
                  sprints[k + 1].start_date - sprints[k].end_date > 3 * TicksPerDay
           /\ \A k \in 1..Len(sprints) :
                  Len(SortedItems) > Cardinality(UNION {ItemsWithin(sprints[j]) :
                                                           j \in 1..k})
                  => SortedItems[1 + Cardinality(UNION {ItemsWithin(sprints[j]) :
                                                           j \in 1..k})].evidence_date
                         - sprints[k].end_date > 3 * TicksPerDay
           /\ Cardinality(unassigned) <= 2
           /\ \A i \in unassigned : \A k \in 1..Len(sprints) :
                  SortedItems[i].evidence_date > sprints[k].end_date

\* two sprints were returned, the first with a gap of 4 days or more
\* inside it, which did not close the cluster of less than 3 items
C25_Witness ==
    /\ call.op = "detect_sprint_boundaries"
    /\ call.done
    /\ Len(call.result) = 2
    /\ \E i \in ItemsWithin(call.result[1]) :
           /\ i + 1 \in ItemsWithin(call.result[1])
           /\ SortedItems[i + 1].evidence_date - SortedItems[i].evidence_date
                  >= 4 * TicksPerDay

\* what the linker detected in a run and what it returned
DetectedAndReturned(r) ==
    Range(DetectedBeforeDeduplication(r)) \cup Range(r.relationships)

\* C26: among the relationships the linker detects and returns in a run,
\* a GitLab item that is the primary of a CONTENT_ANALYSIS relationship is
\* the primary of no ISSUE_KEY and of no BRANCH_NAME relationship.
C26_ContentSimilarityGating ==
    run.called =>
        \A content, direct \in DetectedAndReturned(run) :
            (/\ content.detection_method = CONTENT_ANALYSIS
             /\ direct.primary_evidence_id = content.primary_evidence_id)
            => direct.detection_method \notin {ISSUE_KEY, BRANCH_NAME}

\* a run in which the linker returned an ISSUE_KEY relationship for a
\* GitLab item and a JIRA item whose keyword similarity is above 0.3, and
\* detected no CONTENT_ANALYSIS relationship for that GitLab item
C26_Witness ==
    /\ run.called
    /\ \E rel \in Range(run.relationships) :
          /\ rel.detection_method = ISSUE_KEY
          /\ _calculate_keyword_similarity(
                 UnifiedEvidenceItem(rel.primary_evidence_id).keywords,
                 UnifiedEvidenceItem(rel.related_evidence_id).keywords) > Pct(30)
          /\ \A other \in DetectedAndReturned(run) :
                 other.primary_evidence_id = rel.primary_evidence_id
                 => other.detection_method # CONTENT_ANALYSIS

\* the positions of the relationships of a direct scoring call whose
\* endpoints are both ids of its evidence items
Resolved ==
    SelectSeq(Indices(call.args.relationships),
              LAMBDA i : PairOf(call.args.relationships[i])
                             \subseteq Range(call.args.evidence_items))

\* C27: a direct call of the scoring step raises nothing and returns, in
\* their order, exactly the relationships whose endpoints are both ids of
\* evidence items, each one unchanged but for its confidence_score, which
\* is the score of the confidence scorer for the relationship and its two
\* items; the other relationships are not in the result.
C27_UnresolvedRelationshipsDropped ==
    (call.op = "_score_relationships" /\ call.done) =>
        /\ call.result.exc = NoExc
        /\ Len(call.result.val) = Len(Resolved)
        /\ \A k \in 1..Len(Resolved) :
               LET rel == call.args.relationships[Resolved[k]]
                   scored == call.result.val[k]
               IN /\ [scored EXCEPT !.confidence_score = rel.confidence_score] = rel
                  /\ scored.confidence_score
                         = score_relationship(rel,
                               UnifiedEvidenceItem(rel.primary_evidence_id),
                               UnifiedEvidenceItem(rel.related_evidence_id))
        /\ \A scored \in Range(call.result.val) :
               PairOf(scored) \subseteq Range(call.args.evidence_items)

\* a call on two relationships returned one of them with another
\* confidence_score and dropped the one whose endpoint is no evidence item
C27_Witness ==
    /\ call.op = "_score_relationships"
    /\ call.done
    /\ Len(call.args.relationships) = 2
    /\ Len(Resolved) = 1
    /\ Len(call.result.val) = 1
    /\ call.result.val[1].confidence_score
           # call.args.relationships[Resolved[1]].confidence_score

DisjointStories(stories) ==
    \A s, t \in 1..Len(stories) :
        s # t => stories[s].evidence_items \cap stories[t].evidence_items = {}

\* C28: the stories the grouping step of a run builds, and the stories of
\* the response, have pairwise disjoint evidence sets.
C28_StoriesAreDisjoint ==
    run.called => /\ DisjointStories(run.grouped)
                  /\ DisjointStories(ResponseStories)

\* the grouping step of a run put every evidence item in a story, two of
\* them in one story and the third in another
C28_Witness ==
    /\ run.called
    /\ Len(run.grouped) = 2
    /\ \E s \in 1..Len(run.grouped) :
           Cardinality(run.grouped[s].evidence_items) = 2
    /\ UNION {run.grouped[s].evidence_items : s \in 1..Len(run.grouped)}
           = Range(EvidenceOf(run.request))
    /\ Len(EvidenceOf(run.request)) = 3

\* C29: the usage of every matcher instance stays within its monthly
\* budget, whatever calls of the embedding tier and the LLM tier it
\* received, and no step of an instance takes its usage from within the
\* budget to above it.
C29_SingleInstanceBudgetCeiling ==
    \A s \in DOMAIN services :
        services[s].pc # "absent"
        => services[s].tracker.current_month_usage
               <= services[s].tracker.monthly_budget

\* an instance that started with no usage recorded the cost of an
\* embedding batch and of one adjudication, and has less than the cost of
\* another adjudication left
C29_Witness ==
    \E s \in DOMAIN services :
        /\ services[s].pc = "idle"
        /\ call.done
        /\ call.args = <<s>>
        /\ call.op = "correlate_evidence_with_llm"
        /\ Len(call.result.iterations) >= 1
        /\ call.result.iterations[1].outcome = "called"
        /\ call.result.iterations[1].usage > 0
        /\ call.result.iterations[1].usage < llm_cost_per_request
        /\ services[s].tracker.current_month_usage
               = call.result.iterations[1].usage + llm_cost_per_request
        /\ services[s].tracker.monthly_budget - services[s].tracker.current_month_usage
               < llm_cost_per_request

\* C30: every relationship a run scored has a confidence_score of at least
\* the base score of its detection method; an ISSUE_KEY relationship is
\* scored 0.9 or more, is kept by the filter for every threshold up to
\* 0.9, and is an edge of the grouping: a story of the run holds both of
\* its items or neither.
C30_ScoringKeepsBaseScore ==
    run.called =>
        \A rel \in Range(run.scored_relationships) :
            /\ rel.confidence_score >= method_confidence(rel.detection_method)
            /\ rel.detection_method = ISSUE_KEY
                   => /\ rel.confidence_score >= Pct(90)
                      /\ rel.confidence_score >= min_confidence_for_grouping
                      /\ run.request.confidence_threshold <= Pct(90)
                             => /\ rel \in Range(run.filtered_relationships)
                                /\ \A s \in 1..Len(run.grouped) :
                                       rel.primary_evidence_id
                                           \in run.grouped[s].evidence_items
                                       <=> rel.related_evidence_id
                                               \in run.grouped[s].evidence_items

\* a run with threshold 0.9 kept an ISSUE_KEY relationship and grouped its
\* two items in one story
C30_Witness ==
    /\ run.called
    /\ run.request.confidence_threshold = Pct(90)
    /\ \E rel \in Range(run.filtered_relationships) :
          /\ rel.detection_method = ISSUE_KEY
          /\ \E s \in 1..Len(run.grouped) :
                 {rel.primary_evidence_id, rel.related_evidence_id}
                     \subseteq run.grouped[s].evidence_items
====
